---- MODULE Spec2Model ----
(***************************************************************************)
(* Model of the agent-health-check bot: the message-stream ingestion loop  *)
(* of main() (src/src/index.ts), the setInterval broadcast callback and    *)
(* the command dispatcher handleTextMessage.  One action is one run of the *)
(* single-threaded program between two awaits: it resumes a suspended      *)
(* callback with the outcome of the call it was awaiting, and runs it to   *)
(* its next await.  Strings that the code converts or compares character   *)
(* by character are sequences of one-character strings.  getBasename of    *)
(* helpers/basenames.ts and its cache are modelled next to it, with a      *)
(* specification of their own.                                             *)
(***************************************************************************)
EXTENDS Integers, Sequences, FiniteSets, TLC

\* ------------------------------------------------------------------ bounds
MaxMsgs == 2
MaxTicks == 2
MaxTime == 1
MaxStatusMsgs == 3
MaxLookups == 3
MaxCacheTime == 300000

\* ------------------------------------------------------- string functions
UpperChars == <<"A","B","C","D","E","F","G","H","I","J","K","L","M",
                "N","O","P","Q","R","S","T","U","V","W","X","Y","Z">>
LowerChars == <<"a","b","c","d","e","f","g","h","i","j","k","l","m",
                "n","o","p","q","r","s","t","u","v","w","x","y","z">>

ToLowerChar(c) ==
  IF \E i \in 1..26 : UpperChars[i] = c
    THEN LowerChars[CHOOSE i \in 1..26 : UpperChars[i] = c]
    ELSE c

ToLowerCase(s) == [i \in 1..Len(s) |-> ToLowerChar(s[i])]

WhiteSpace == {" ", "\t", "\n"}

Trim(s) ==
  LET keep == {i \in 1..Len(s) : s[i] \notin WhiteSpace}
  IN  IF keep = {} THEN << >>
      ELSE LET lo == CHOOSE i \in keep : \A j \in keep : i <= j
               hi == CHOOSE i \in keep : \A j \in keep : j <= i
           IN  SubSeq(s, lo, hi)

Includes(s, sub) ==
  \E i \in 1..(Len(s) - Len(sub) + 1) : SubSeq(s, i, i + Len(sub) - 1) = sub

\* --------------------------------------------------------------- constants
\* null and undefined: no string of characters.
NULL == <<"null">>

SKIP_TRACKING_ADDRESS ==
  <<"0","x","A","5","A","7","9","F","b","7","E","7","7","2","b","5","1","B",
    "1","2","2","0","0","B","2","f","6","2","8","2","b","1","b","e","E","3",
    "6","d","C","3","c","E">>

\* The texts the program sends, without their emoji and markup; TXT_ERROR
\* stands for the error text with the message of the error appended,
\* TXT_PROFILE and TXT_NO_BASENAME for the texts with the fields of the
\* profile appended.
TXT_GM == "GM"
TXT_PING == "ping"
TXT_STARTED == "GM broadcasting started! I'll send GM every 30 seconds."
TXT_STOPPED == "GM broadcasting stopped."
TXT_STATUS_ON == "Broadcasting Status: GM Broadcasting: Active"
TXT_STATUS_OFF == "Broadcasting Status: GM Broadcasting: Inactive"
TXT_ERROR == "Error processing message"
TXT_REPORT_EMPTY == "Agent Response Report\n\nNo responses tracked yet."
TXT_PROFILE == "Your Profile\n\nBasename: "
TXT_NO_BASENAME == "Your Profile\n\nAddress: "
TXT_NO_ADDRESS == "Could not determine your address."

\* The commands the dispatcher compares the text with.
CMD_START == <<"/","s","t","a","r","t">>
CMD_STOP == <<"/","s","t","o","p">>
CMD_STATUS == <<"/","s","t","a","t","u","s">>
CMD_STATS == <<"/","s","t","a","t","s">>
\* /report compared with a capitalised spelling.
CMD_REPORT_Capitalised == <<"/","R","e","p","o","r","t">>
CMD_REPORT == <<"/","r","e","p","o","r","t">>
CMD_PROFILE == <<"/","p","r","o","f","i","l","e">>
\* The fallback looking for an "m" alone.
SUB_GM_JustM == <<"m">>
SUB_GM == <<"g","m">>

\* ------------------------------------------------------------ environment
\* client.inboxId, and the inboxes and conversations of the network: conv1 is
\* a group, conv2 a direct conversation with Alice.  The stream also carries
\* the agent's own greetings, under its inbox id as the network spells it.
ClientInboxId == <<"a","1">>
OwnInboxId == <<"A","1">>
Alice == <<"b","2">>
Bob == <<"c","3">>
Excluded == <<"d","4">>
InboxIds == {OwnInboxId, Alice, Bob, Excluded}

Conversations == {"conv1", "conv2"}

Members(conversationId) ==
  IF conversationId = "conv1" THEN {OwnInboxId, Alice, Bob, Excluded}
  ELSE {Alice}

\* The identifier the network holds for each inbox id.
IdentifierOf(inboxId) ==
  CASE inboxId = Alice -> <<"0","x","A","B","C","1","2","3">>
    [] inboxId = Bob -> <<"0","x","d","e","f","4","5","6">>
    [] inboxId = Excluded -> ToLowerCase(SKIP_TRACKING_ADDRESS)
    [] OTHER -> <<"0","x","0","0">>

\* What each inbox writes into each conversation: <<content type, content>>.
Writes(inboxId, conversationId) ==
  CASE inboxId = OwnInboxId ->
         {<<"text", <<"G","M">>>>}
    [] inboxId = Alice /\ conversationId = "conv1" ->
         {<<"text", <<" ","/","S","t","a","r","t"," ">>>>,
          <<"text", <<"/","s","t","o","p">>>>}
    [] inboxId = Alice /\ conversationId = "conv2" ->
         {<<"text", <<"h","i">>>>}
    [] inboxId = Bob ->
         {<<"text", <<"h","i"," ","G","M">>>>,
          <<"text", <<"/","S","T","A","T","U","S","\n">>>>,
          <<"reaction", << >>>>}
    [] OTHER ->
         {<<"text", <<"/","s","t","o","p">>>>}

MessagesOf(inboxId, conversationId) ==
  {[senderInboxId |-> inboxId, conversationId |-> conversationId,
    typeId |-> w[1], content |-> w[2]] : w \in Writes(inboxId, conversationId)}

\* The messages the stream may deliver.
StreamMessages ==
  UNION {MessagesOf(i, c) : <<i, c>> \in {x \in InboxIds \X Conversations :
                                           x[1] \in Members(x[2])}}

\* The messages of the runs of the loop with one tick: those of the stream
\* and a greeting of the sender with the excluded address.
LoopMessages ==
  StreamMessages \cup
    {[senderInboxId |-> Excluded, conversationId |-> "conv1",
      typeId |-> "text", content |-> <<"g","m">>]}

\* The messages of the runs in which the clock is watched.
TimedMessages ==
  {m \in StreamMessages :
     \/ m.senderInboxId = Excluded
     \/ m.content \in {<<"h","i">>, <<"h","i"," ","G","M">>}}

NoMessage == [senderInboxId |-> << >>, conversationId |-> "", typeId |-> "",
              content |-> << >>]

NoRecord == [senderInboxId |-> << >>, senderAddress |-> << >>, timestamp |-> 0,
             conversationId |-> "", messageContent |-> NULL, contentType |-> ""]

\* ------------------------------------------------------------------- state
VARIABLES
  isActive,               \* broadcastingControl.isActive
  activeConversations,    \* the Set, as the sequence of its ids in insertion order
  messageHistory,         \* MessageRecord[]
  uniqueSenders,          \* Set of inbox ids
  uniqueWalletAddresses,  \* Set of addresses
  agentResponses,         \* Map: key -> AgentResponse
  now,                    \* the clock new Date() reads
  sent,                   \* the conversation.send calls of main() and the dispatcher, in call order
  broadcasts,             \* per conversation, how many "ping" and "GM" the timer has sent
  pc,                     \* where main() is suspended
  message,                \* the loop variable of the for await
  senderAddress,          \* main()'s local of that name
  ticks,                  \* the invocations of the setInterval callback
  outcomes,               \* history: per delivered message, how its processing went
  life,                   \* history: per conversation, its last add or removal
  basenameCache,          \* the Map of basenames.ts: lower-cased address -> entry
  lookups                 \* the calls of getBasename, in call order, suspended or returned

vars == <<isActive, activeConversations, messageHistory, uniqueSenders,
          uniqueWalletAddresses, agentResponses, now, sent, broadcasts, pc,
          message, senderAddress, ticks, outcomes, life, basenameCache,
          lookups>>

\* The state of main() and of its timer, and the state of the name cache.
mainVars == <<isActive, activeConversations, messageHistory, uniqueSenders,
              uniqueWalletAddresses, agentResponses, sent, broadcasts, pc,
              message, senderAddress, ticks, outcomes, life>>
nameVars == <<basenameCache, lookups>>

trackVars == <<messageHistory, uniqueSenders, uniqueWalletAddresses>>
locals == <<message, senderAddress>>

IdleTick == [pc |-> "idle", idx |-> 0, conversationId |-> "",
             latestMessage |-> NoRecord, visited |-> {}]
DoneTick == [IdleTick EXCEPT !.pc = "done"]
SkippedTick == [IdleTick EXCEPT !.pc = "skipped"]

Init ==
  /\ isActive = TRUE
  /\ activeConversations = << >>
  /\ messageHistory = << >>
  /\ uniqueSenders = {}
  /\ uniqueWalletAddresses = {}
  /\ agentResponses = << >>
  /\ now = 0
  /\ sent = << >>
  /\ broadcasts = [c \in Conversations |-> [ping |-> 0, gm |-> 0]]
  /\ pc = "init"
  /\ message = NoMessage
  /\ senderAddress = NULL
  /\ ticks = [k \in 1..MaxTicks |-> IdleTick]
  /\ outcomes = << >>
  /\ life = [c \in Conversations |-> "new"]
  /\ basenameCache = << >>
  /\ lookups = << >>

\* ----------------------------------------------------------------- helpers
SeqToSet(s) == {s[i] : i \in 1..Len(s)}

\* Set.prototype.add: a new id goes to the end of the insertion order.
SetAdd(s, c) == IF c \in SeqToSet(s) THEN s ELSE Append(s, c)

\* Set.prototype.delete.
SetDelete(s, c) == SelectSeq(s, LAMBDA x : x # c)

PositionOf(s, c) == CHOOSE i \in 1..Len(s) : s[i] = c

\* A live Set iterator that has passed the deleted entry has one entry less
\* behind it.
IterAfterDelete(tk, s, c) ==
  IF c \in SeqToSet(s) /\ tk.idx >= PositionOf(s, c)
    THEN [tk EXCEPT !.idx = @ - 1]
    ELSE tk

Send(conversationId, text) ==
  Append(sent, [conversationId |-> conversationId, text |-> text])

\* IsOwnMessage comparing the ids as they are spelled.
IsOwnMessage_Exact(m) == m.senderInboxId = ClientInboxId

IsOwnMessage(m) ==
  ToLowerCase(m.senderInboxId) = ToLowerCase(ClientInboxId)

IsSkipAddress(address) ==
  ToLowerCase(address) = ToLowerCase(SKIP_TRACKING_ADDRESS)

\* updateAgentResponse leaving the time of an existing record as it is.
updateAgentResponse_Stale(responses, senderInboxId, address, conversationId, time) ==
  IF senderInboxId \in DOMAIN responses
    THEN responses
    ELSE responses @@
         (senderInboxId :> [senderInboxId |-> senderInboxId,
                            senderAddress |-> address,
                            lastResponseTime |-> time,
                            conversationId |-> conversationId])

\* The key of agentResponses.set and agentResponses.get.
ResponseKey(senderInboxId, conversationId) == senderInboxId

\* updateAgentResponse: the time of an existing record is overwritten, a
\* missing record is created.
updateAgentResponse(responses, senderInboxId, address, conversationId, time) ==
  LET key == ResponseKey(senderInboxId, conversationId)
  IN  IF key \in DOMAIN responses
        THEN [responses EXCEPT ![key].lastResponseTime = time]
        ELSE responses @@
             (key :> [senderInboxId |-> senderInboxId,
                      senderAddress |-> address,
                      lastResponseTime |-> time,
                      conversationId |-> conversationId])

\* ------------------------------------------------- texts of the dispatcher
\* A sequence of characters as the string it spells.
RECURSIVE Str(_)
Str(s) == IF s = << >> THEN "" ELSE s[1] \o Str(Tail(s))

\* Array.prototype.join('\n').
RECURSIVE JoinLines(_)
JoinLines(lines) ==
  IF lines = << >> THEN ""
  ELSE IF Len(lines) = 1 THEN lines[1]
  ELSE lines[1] \o "\n" \o JoinLines(Tail(lines))

\* Array.prototype.sort with a comparator b.key - a.key: x goes in front of
\* the first entry with a smaller key, so entries with equal keys keep their
\* order.
RECURSIVE InsertSorted(_, _)
InsertSorted(s, x) ==
  IF s = << >> THEN <<x>>
  ELSE IF x.key > s[1].key THEN <<x>> \o s
  ELSE <<s[1]>> \o InsertSorted(Tail(s), x)

RECURSIVE SortDescending(_)
SortDescending(s) ==
  IF s = << >> THEN << >>
  ELSE InsertSorted(SortDescending(SubSeq(s, 1, Len(s) - 1)), s[Len(s)])

\* The name service: the basename it holds for an address, or none.
BasenameOf(address) ==
  IF ToLowerCase(address) = ToLowerCase(IdentifierOf(Alice))
    THEN <<"a","l","i","c","e",".","b","a","s","e",".","e","t","h">>
    ELSE NULL

\* getDisplayName: the basename, or else the first 8 and the last 6
\* characters of the address; it never throws.
getDisplayName(address) ==
  IF BasenameOf(address) # NULL
    THEN Str(BasenameOf(address))
    ELSE LET n == Len(address)
         IN  Str(SubSeq(address, 1, IF n < 8 THEN n ELSE 8)) \o "..." \o
             Str(SubSeq(address, IF n < 6 THEN 1 ELSE n - 5, n))

\* /stats: the Map senderCount, as the sequence of its entries in insertion
\* order; key is the count.
RECURSIVE senderCount(_)
senderCount(history) ==
  IF history = << >> THEN << >>
  ELSE LET rest == senderCount(SubSeq(history, 1, Len(history) - 1))
           address == history[Len(history)].senderAddress
       IN  IF \E i \in 1..Len(rest) : rest[i].senderAddress = address
             THEN [i \in 1..Len(rest) |->
                     IF rest[i].senderAddress = address
                       THEN [rest[i] EXCEPT !.key = @ + 1]
                       ELSE rest[i]]
             ELSE Append(rest, [senderAddress |-> address, key |-> 1])

\* statsMessage joining the lines of its two sections as they are.
statsMessage_NoPlaceholder(history, active) ==
  LET totalMessages == Len(history)
      totalSenders ==
        Cardinality({history[i].senderAddress : i \in 1..totalMessages})
      broadcastStatus == IF active THEN "Active" ELSE "Inactive"
      lastFive == SubSeq(history,
                         IF totalMessages < 5 THEN 1 ELSE totalMessages - 4,
                         totalMessages)
      recentMessages ==
        [i \in 1..Len(lastFive) |->
           "  " \o getDisplayName(lastFive[i].senderAddress) \o " at " \o
           ToString(lastFive[i].timestamp)]
      sorted == SortDescending(senderCount(history))
      topSendersData == SubSeq(sorted, 1, IF Len(sorted) < 3 THEN Len(sorted)
                                          ELSE 3)
      topSenders ==
        [i \in 1..Len(topSendersData) |->
           "  " \o getDisplayName(topSendersData[i].senderAddress) \o ": " \o
           ToString(topSendersData[i].key) \o " messages"]
  IN  "Message Tracking Stats\n\nTotal Messages: " \o ToString(totalMessages)
      \o "\nUnique Wallet Addresses: " \o ToString(totalSenders)
      \o "\nGM Broadcasting: " \o broadcastStatus
      \o "\n\nRecent Messages:\n"
      \o JoinLines(recentMessages)
      \o "\n\nTop Senders:\n"
      \o JoinLines(topSenders)

\* /stats: the text of the reply.  The time of a record is written as the
\* number the clock showed.
statsMessage(history, active) ==
  LET totalMessages == Len(history)
      totalSenders ==
        Cardinality({history[i].senderAddress : i \in 1..totalMessages})
      broadcastStatus == IF active THEN "Active" ELSE "Inactive"
      lastFive == SubSeq(history,
                         IF totalMessages < 5 THEN 1 ELSE totalMessages - 4,
                         totalMessages)
      recentMessages ==
        [i \in 1..Len(lastFive) |->
           "  " \o getDisplayName(lastFive[i].senderAddress) \o " at " \o
           ToString(lastFive[i].timestamp)]
      sorted == SortDescending(senderCount(history))
      topSendersData == SubSeq(sorted, 1, IF Len(sorted) < 3 THEN Len(sorted)
                                          ELSE 3)
      topSenders ==
        [i \in 1..Len(topSendersData) |->
           "  " \o getDisplayName(topSendersData[i].senderAddress) \o ": " \o
           ToString(topSendersData[i].key) \o " messages"]
  IN  "Message Tracking Stats\n\nTotal Messages: " \o ToString(totalMessages)
      \o "\nUnique Wallet Addresses: " \o ToString(totalSenders)
      \o "\nGM Broadcasting: " \o broadcastStatus
      \o "\n\nRecent Messages:\n"
      \o (IF JoinLines(recentMessages) = "" THEN "  No messages yet"
          ELSE JoinLines(recentMessages))
      \o "\n\nTop Senders:\n"
      \o (IF JoinLines(topSenders) = "" THEN "  No senders yet"
          ELSE JoinLines(topSenders))

\* getStatusIndicator counting a record of 30 or of 60 seconds into the
\* class below.
getStatusIndicator_Inclusive(time, lastResponseTime) ==
  LET diffMs == time - lastResponseTime
      diffSeconds == diffMs \div 1000
  IN  IF diffSeconds <= 30 THEN "green"
      ELSE IF diffSeconds <= 60 THEN "yellow"
      ELSE "red"

\* /report: the indicator of a record, by the whole seconds since its time;
\* the times are milliseconds.  The three emoji are written as the names of
\* their colours.
getStatusIndicator(time, lastResponseTime) ==
  LET diffMs == time - lastResponseTime
      diffSeconds == diffMs \div 1000
  IN  IF diffSeconds < 30 THEN "green"
      ELSE IF diffSeconds < 60 THEN "yellow"
      ELSE "red"

getTimeDifference(time, lastResponseTime) ==
  LET diffMs == time - lastResponseTime
      diffSeconds == diffMs \div 1000
      diffMinutes == diffSeconds \div 60
      diffHours == diffMinutes \div 60
  IN  IF diffHours > 0
        THEN ToString(diffHours) \o "h " \o ToString(diffMinutes % 60) \o "m ago"
      ELSE IF diffMinutes > 0
        THEN ToString(diffMinutes) \o "m " \o ToString(diffSeconds % 60) \o "s ago"
      ELSE ToString(diffSeconds) \o "s ago"

\* /report: Array.from(agentResponses.values()).  The map of the model does
\* not keep its insertion order: every order of its records is one.
ResponseValues(responses) ==
  LET n == Cardinality(DOMAIN responses)
  IN  {[i \in 1..n |-> responses[order[i]]] :
         order \in {o \in [1..n -> DOMAIN responses] :
                      \A i, j \in 1..n : i # j => o[i] # o[j]}}

\* /report: the template of the reply around its lines.
reportText(reportLines) ==
  "Agent Response Report\n\nAgent Status by Wallet Address:\n"
  \o JoinLines(reportLines)
  \o "\n\nLegend:\ngreen Active (< 30s ago)\nyellow Recent (30s - 1m ago)"
  \o "\nred Inactive (> 1m ago)\n\nTotal Active Conversations: "
  \o ToString(Len(reportLines))

\* /report: the records sorted by their time, the latest first.
SortedResponses(values) ==
  SortDescending([i \in 1..Len(values) |->
                    [key |-> values[i].lastResponseTime, response |-> values[i]]])

\* /report: the text of the reply for the records in the order values.
reportMessage(values, time) ==
  IF values = << >> THEN TXT_REPORT_EMPTY
  ELSE
    LET sorted == SortedResponses(values)
        reportLines ==
          [i \in 1..Len(sorted) |->
             "  " \o getStatusIndicator(time, sorted[i].key) \o " " \o
             getDisplayName(sorted[i].response.senderAddress) \o " - " \o
             getTimeDifference(time, sorted[i].key)]
    IN  reportText(reportLines)

\* /profile: the replies; which one is sent depends on conversation.members
\* and on the profile the name service returns.
ProfileReplies == {TXT_PROFILE, TXT_NO_BASENAME, TXT_NO_ADDRESS}

\* History: the entry of the message being processed.
Outcome(result, notice) ==
  [outcomes EXCEPT ![Len(outcomes)].result = result,
                   ![Len(outcomes)].notice = notice]

\* handleTextMessage looking for "gm" in the text as it was written.
handleTextMessage_GmAsWritten(conversationId, messageContent, after) ==
  LET command == Trim(ToLowerCase(messageContent))
  IN  IF command = CMD_START
        THEN /\ sent' = Send(conversationId, TXT_GM)
             /\ pc' = "start_gm"
             /\ UNCHANGED <<isActive, agentResponses>>
      ELSE IF command = CMD_STOP
        THEN /\ isActive' = FALSE
             /\ sent' = Send(conversationId, TXT_STOPPED)
             /\ pc' = "reply"
             /\ UNCHANGED agentResponses
      ELSE IF command = CMD_STATUS
        THEN /\ sent' = Send(conversationId,
                             IF isActive THEN TXT_STATUS_ON ELSE TXT_STATUS_OFF)
             /\ pc' = "reply"
             /\ UNCHANGED <<isActive, agentResponses>>
      ELSE IF command = CMD_STATS
        THEN /\ sent' = Send(conversationId,
                             statsMessage(messageHistory, isActive))
             /\ pc' = "reply"
             /\ UNCHANGED <<isActive, agentResponses>>
      ELSE IF command = CMD_REPORT
        THEN /\ \E values \in ResponseValues(agentResponses) :
                  sent' = Send(conversationId, reportMessage(values, now))
             /\ pc' = "reply"
             /\ UNCHANGED <<isActive, agentResponses>>
      ELSE IF command = CMD_PROFILE
        THEN /\ \E text \in ProfileReplies :
                  sent' = Send(conversationId, text)
             /\ pc' = "reply"
             /\ UNCHANGED <<isActive, agentResponses>>
      ELSE IF Includes(messageContent, SUB_GM)
        THEN /\ sent' = Send(conversationId, TXT_GM)
             /\ pc' = "reply"
             /\ UNCHANGED <<isActive, agentResponses>>
      ELSE /\ after
           /\ UNCHANGED <<isActive, sent>>

\* handleTextMessage enabling the broadcast as soon as it sees /start, before
\* the greeting is sent.
handleTextMessage_EarlyStart(conversationId, messageContent, after) ==
  LET command == Trim(ToLowerCase(messageContent))
  IN  IF command = CMD_START
        THEN /\ isActive' = TRUE
             /\ sent' = Send(conversationId, TXT_GM)
             /\ pc' = "start_gm"
             /\ UNCHANGED agentResponses
      ELSE IF command = CMD_STOP
        THEN /\ isActive' = FALSE
             /\ sent' = Send(conversationId, TXT_STOPPED)
             /\ pc' = "reply"
             /\ UNCHANGED agentResponses
      ELSE IF command = CMD_STATUS
        THEN /\ sent' = Send(conversationId,
                             IF isActive THEN TXT_STATUS_ON ELSE TXT_STATUS_OFF)
             /\ pc' = "reply"
             /\ UNCHANGED <<isActive, agentResponses>>
      ELSE IF command = CMD_STATS
        THEN /\ sent' = Send(conversationId,
                             statsMessage(messageHistory, isActive))
             /\ pc' = "reply"
             /\ UNCHANGED <<isActive, agentResponses>>
      ELSE IF command = CMD_REPORT
        THEN /\ \E values \in ResponseValues(agentResponses) :
                  sent' = Send(conversationId, reportMessage(values, now))
             /\ pc' = "reply"
             /\ UNCHANGED <<isActive, agentResponses>>
      ELSE IF command = CMD_PROFILE
        THEN /\ \E text \in ProfileReplies :
                  sent' = Send(conversationId, text)
             /\ pc' = "reply"
             /\ UNCHANGED <<isActive, agentResponses>>
      ELSE IF Includes(ToLowerCase(command), SUB_GM)
        THEN /\ sent' = Send(conversationId, TXT_GM)
             /\ pc' = "reply"
             /\ UNCHANGED <<isActive, agentResponses>>
      ELSE /\ after
           /\ UNCHANGED <<isActive, sent>>

\* ------------------------------------------------------- command dispatcher
\* handleTextMessage up to the await of its first send, or to its return when
\* the text is no command.  after is what the caller does once the returned
\* promise has resolved.  The name lookups that /stats, /report and /profile
\* await before their send never throw and change nothing of this state, and
\* what these replies say is read from the flag, the clock and the map before
\* the first of them and from the history, which only the suspended loop
\* appends to: they are part of the step.  main() passes all of the optional
\* arguments, so the replies for a missing argument are never sent.
handleTextMessage(conversationId, messageContent, after) ==
  LET command == Trim(ToLowerCase(messageContent))
  IN  IF command = CMD_START
        THEN /\ sent' = Send(conversationId, TXT_GM)
             /\ pc' = "start_gm"
             /\ UNCHANGED <<isActive, agentResponses>>
      ELSE IF command = CMD_STOP
        THEN /\ isActive' = FALSE
             /\ sent' = Send(conversationId, TXT_STOPPED)
             /\ pc' = "reply"
             /\ UNCHANGED agentResponses
      ELSE IF command = CMD_STATUS
        THEN /\ sent' = Send(conversationId,
                             IF isActive THEN TXT_STATUS_ON ELSE TXT_STATUS_OFF)
             /\ pc' = "reply"
             /\ UNCHANGED <<isActive, agentResponses>>
      ELSE IF command = CMD_STATS
        THEN /\ sent' = Send(conversationId,
                             statsMessage(messageHistory, isActive))
             /\ pc' = "reply"
             /\ UNCHANGED <<isActive, agentResponses>>
      ELSE IF command = CMD_REPORT
        THEN /\ \E values \in ResponseValues(agentResponses) :
                  sent' = Send(conversationId, reportMessage(values, now))
             /\ pc' = "reply"
             /\ UNCHANGED <<isActive, agentResponses>>
      ELSE IF command = CMD_PROFILE
        THEN /\ \E text \in ProfileReplies :
                  sent' = Send(conversationId, text)
             /\ pc' = "reply"
             /\ UNCHANGED <<isActive, agentResponses>>
      ELSE IF Includes(ToLowerCase(command), SUB_GM)
        THEN /\ sent' = Send(conversationId, TXT_GM)
             /\ pc' = "reply"
             /\ UNCHANGED <<isActive, agentResponses>>
      ELSE /\ after
           /\ UNCHANGED <<isActive, sent>>

\* AfterHandled recording a response on the skip-address path too.
AfterHandled_Always ==
  /\ agentResponses' =
       updateAgentResponse(agentResponses, message.senderInboxId,
                           senderAddress, message.conversationId, now)
  /\ pc' = "next"

\* main() after `await responsePromise`: the tracked path records the
\* response, the skip-address path just continues with the next message.
AfterHandled ==
  /\ agentResponses' =
       IF IsSkipAddress(senderAddress)
         THEN agentResponses
         ELSE updateAgentResponse(agentResponses, message.senderInboxId,
                                  senderAddress, message.conversationId, now)
  /\ pc' = "next"

\* The catch of the per-message try: log, then look the conversation up.
CatchMessageError == pc' = "err_conv"

\* The locals of one iteration of the for await end with it.
EndOfIteration ==
  /\ message' = IF pc' = "next" THEN NoMessage ELSE message
  /\ senderAddress' = IF pc' = "next" THEN NULL ELSE senderAddress

\* ---------------------------------------------------------- ingestion loop
\* Startup whose catch does not end the process: the loop is entered after a
\* failed initialization.
Startup_NoExit ==
  /\ pc = "init"
  /\ \E ok \in BOOLEAN : pc' = IF ok THEN "init_sync" ELSE "stream"
  /\ UNCHANGED <<isActive, activeConversations, trackVars, agentResponses, now,
                 sent, message, senderAddress, ticks, broadcasts, outcomes, life>>
  /\ UNCHANGED nameVars

\* createSigner, Client.create and getIdentifier: any of them throwing ends
\* in process.exit(1); otherwise the first conversations.sync() is awaited.
Startup ==
  /\ pc = "init"
  /\ \E ok \in BOOLEAN : pc' = IF ok THEN "init_sync" ELSE "exited"
  /\ UNCHANGED <<isActive, activeConversations, trackVars, agentResponses, now,
                 sent, message, senderAddress, ticks, broadcasts, outcomes, life>>
  /\ UNCHANGED nameVars

\* The first conversations.sync() returns or throws: it is inside the try of
\* main(), so a throw ends in process.exit(1) too; otherwise the interval is
\* set and the first stream is requested.
InitialSync ==
  /\ pc = "init_sync"
  /\ \E ok \in BOOLEAN : pc' = IF ok THEN "stream" ELSE "exited"
  /\ UNCHANGED <<isActive, activeConversations, trackVars, agentResponses, now,
                 sent, message, senderAddress, ticks, broadcasts, outcomes, life>>
  /\ UNCHANGED nameVars

\* await client.conversations.streamAllMessages() returns or throws.
StreamOpened ==
  /\ pc = "stream"
  /\ \E ok \in BOOLEAN : pc' = IF ok THEN "next" ELSE "backoff"
  /\ UNCHANGED <<isActive, activeConversations, trackVars, agentResponses, now,
                 sent, message, senderAddress, ticks, broadcasts, outcomes, life>>
  /\ UNCHANGED nameVars

\* TakeMessage not waiting for the dispatcher: the next message is taken
\* while the reply of the one before is still being sent.
TakeMessage_Eager(m, limit) ==
  /\ pc \in {"next", "reply"}
  /\ Len(outcomes) < limit
  /\ pc' = IF IsOwnMessage(m) THEN "next" ELSE "address"
  /\ message' = IF pc' = "next" THEN NoMessage ELSE m
  /\ outcomes' = Append(outcomes,
       [sender |-> m.senderInboxId, record |-> 0, notice |-> "none",
        sentBefore |-> Len(sent),
        result |-> IF pc' = "next" THEN "own" ELSE "pending"])
  /\ UNCHANGED <<isActive, activeConversations, trackVars, agentResponses, now,
                 sent, senderAddress, ticks, broadcasts, life>>
  /\ UNCHANGED nameVars

\* The stream delivers a message: messages of the agent itself are skipped,
\* for the others the sender's address is asked for.
TakeMessage(m, limit) ==
  /\ pc = "next"
  /\ Len(outcomes) < limit
  /\ pc' = IF IsOwnMessage(m) THEN "next" ELSE "address"
  /\ message' = IF pc' = "next" THEN NoMessage ELSE m
  /\ outcomes' = Append(outcomes,
       [sender |-> m.senderInboxId, record |-> 0, notice |-> "none",
        sentBefore |-> Len(sent),
        result |-> IF pc' = "next" THEN "own" ELSE "pending"])
  /\ UNCHANGED <<isActive, activeConversations, trackVars, agentResponses, now,
                 sent, senderAddress, ticks, broadcasts, life>>
  /\ UNCHANGED nameVars

StreamMessage(m) == TakeMessage(m, MaxMsgs)

\* StreamFailed telling every conversation of the stream error.
StreamFailed_Notifies ==
  /\ pc = "next"
  /\ pc' = "backoff"
  /\ sent' = Send("conv1", TXT_ERROR)
  /\ UNCHANGED <<isActive, activeConversations, trackVars, agentResponses, now,
                 message, senderAddress, ticks, broadcasts, outcomes, life>>
  /\ UNCHANGED nameVars

\* The iteration of the stream throws.
StreamFailed ==
  /\ pc = "next"
  /\ pc' = "backoff"
  /\ UNCHANGED <<isActive, activeConversations, trackVars, agentResponses, now,
                 sent, message, senderAddress, ticks, broadcasts, outcomes, life>>
  /\ UNCHANGED nameVars

\* The iteration of the stream ends without an error: the for await is over
\* and while (true) asks for a fresh stream at once.
StreamEnded ==
  /\ pc = "next"
  /\ pc' = "stream"
  /\ UNCHANGED <<isActive, activeConversations, trackVars, agentResponses, now,
                 sent, message, senderAddress, ticks, broadcasts, outcomes, life>>
  /\ UNCHANGED nameVars

\* getWalletAddressFromInboxId: the identifier, or null when there is none or
\* the lookup throws.
getWalletAddressFromInboxId(inboxId) == {IdentifierOf(inboxId), NULL}

\* AddressResolved without the test for a missing address: toLowerCase() of
\* null throws into the catch of the message.
AddressResolved_NoNullTest ==
  /\ pc = "address"
  /\ \E a \in getWalletAddressFromInboxId(message.senderInboxId) :
       /\ senderAddress' = a
       /\ pc' = IF a = NULL THEN "err_conv"
                ELSE IF IsSkipAddress(a) THEN "skip_conv"
                ELSE "display"
       /\ message' = message
       /\ outcomes' = IF a = NULL THEN Outcome("no_address", "none") ELSE outcomes
  /\ UNCHANGED <<isActive, activeConversations, trackVars, agentResponses, now,
                 sent, ticks, broadcasts, life>>
  /\ UNCHANGED nameVars

\* await getWalletAddressFromInboxId(...) returns in main().
AddressResolved ==
  /\ pc = "address"
  /\ \E a \in getWalletAddressFromInboxId(message.senderInboxId) :
       /\ senderAddress' = a
       /\ pc' = IF a = NULL THEN "next"
                ELSE IF IsSkipAddress(a) THEN "skip_conv"
                ELSE "display"
       /\ message' = IF pc' = "next" THEN NoMessage ELSE message
       /\ outcomes' = IF a = NULL THEN Outcome("no_address", "none") ELSE outcomes
  /\ UNCHANGED <<isActive, activeConversations, trackVars, agentResponses, now,
                 sent, ticks, broadcasts, life>>
  /\ UNCHANGED nameVars

\* SkipConversationFetched adding the conversation to the active set.
SkipConversationFetched_Activates ==
  /\ pc = "skip_conv"
  /\ \E r \in {"found", "none", "throw"} :
       IF r = "throw"
         THEN /\ CatchMessageError
              /\ outcomes' = Outcome("lookup_threw", "none")
              /\ UNCHANGED <<isActive, sent, agentResponses>>
       ELSE IF r = "found" /\ message.typeId = "text"
         THEN /\ handleTextMessage(message.conversationId, message.content,
                                   pc' = "next" /\ UNCHANGED agentResponses)
              /\ outcomes' = Outcome(IF pc' = "next" THEN "handled"
                                     ELSE "dispatched", "none")
       ELSE /\ pc' = "next"
            /\ outcomes' = Outcome(IF r = "none" THEN "no_conversation"
                                   ELSE "not_text", "none")
            /\ UNCHANGED <<isActive, sent, agentResponses>>
  /\ EndOfIteration
  /\ activeConversations' = SetAdd(activeConversations, message.conversationId)
  /\ UNCHANGED <<trackVars, now, ticks, broadcasts, life>>
  /\ UNCHANGED nameVars

\* The skip-address path: the conversation lookup returns or throws; a text
\* is still dispatched, nothing is tracked.
SkipConversationFetched ==
  /\ pc = "skip_conv"
  /\ \E r \in {"found", "none", "throw"} :
       IF r = "throw"
         THEN /\ CatchMessageError
              /\ outcomes' = Outcome("lookup_threw", "none")
              /\ UNCHANGED <<isActive, sent, agentResponses>>
       ELSE IF r = "found" /\ message.typeId = "text"
         THEN /\ handleTextMessage(message.conversationId, message.content,
                                   pc' = "next" /\ UNCHANGED agentResponses)
              /\ outcomes' = Outcome(IF pc' = "next" THEN "handled"
                                     ELSE "dispatched", "none")
       ELSE /\ pc' = "next"
            /\ outcomes' = Outcome(IF r = "none" THEN "no_conversation"
                                   ELSE "not_text", "none")
            /\ UNCHANGED <<isActive, sent, agentResponses>>
  /\ EndOfIteration
  /\ UNCHANGED <<activeConversations, trackVars, now, ticks, broadcasts, life>>
  /\ UNCHANGED nameVars

\* MessageTracked keeping only the latest record of each sender.
MessageTracked_KeepsLatest ==
  /\ pc = "display"
  /\ messageHistory' = Append(
       SelectSeq(messageHistory,
                 LAMBDA r : r.senderInboxId # message.senderInboxId),
       [senderInboxId |-> message.senderInboxId,
        senderAddress |-> senderAddress,
        timestamp |-> now,
        conversationId |-> message.conversationId,
        messageContent |-> IF message.typeId = "text" THEN message.content
                           ELSE NULL,
        contentType |-> message.typeId])
  /\ uniqueSenders' = uniqueSenders \cup {message.senderInboxId}
  /\ uniqueWalletAddresses' = uniqueWalletAddresses \cup {senderAddress}
  /\ pc' = "conv"
  /\ outcomes' = [outcomes EXCEPT ![Len(outcomes)].record = Len(messageHistory')]
  /\ UNCHANGED <<isActive, activeConversations, agentResponses, now, sent,
                 message, senderAddress, ticks, broadcasts, life>>
  /\ UNCHANGED nameVars

\* await getDisplayNameForLogging(...) returns (it never throws): the record
\* is built and pushed, the sender sets updated, the conversation looked up.
MessageTracked ==
  /\ pc = "display"
  /\ messageHistory' = Append(messageHistory,
       [senderInboxId |-> message.senderInboxId,
        senderAddress |-> senderAddress,
        timestamp |-> now,
        conversationId |-> message.conversationId,
        messageContent |-> IF message.typeId = "text" THEN message.content
                           ELSE NULL,
        contentType |-> message.typeId])
  /\ uniqueSenders' = uniqueSenders \cup {message.senderInboxId}
  /\ uniqueWalletAddresses' = uniqueWalletAddresses \cup {senderAddress}
  /\ pc' = "conv"
  /\ outcomes' = [outcomes EXCEPT ![Len(outcomes)].record = Len(messageHistory')]
  /\ UNCHANGED <<isActive, activeConversations, agentResponses, now, sent,
                 message, senderAddress, ticks, broadcasts, life>>
  /\ UNCHANGED nameVars

\* ConversationFetched adding the id before it looks at what the lookup
\* returned.
ConversationFetched_AddsUnfound ==
  /\ pc = "conv"
  /\ \E r \in {"found", "none", "throw"} :
       IF r = "throw"
         THEN /\ CatchMessageError
              /\ outcomes' = Outcome("lookup_threw", "none")
              /\ UNCHANGED <<isActive, sent, agentResponses, activeConversations,
                             life>>
       ELSE IF r = "none"
         THEN /\ activeConversations' =
                   SetAdd(activeConversations, message.conversationId)
              /\ life' = [life EXCEPT ![message.conversationId] = "active"]
              /\ pc' = "next"
              /\ outcomes' = Outcome("no_conversation", "none")
              /\ UNCHANGED <<isActive, sent, agentResponses>>
       ELSE /\ activeConversations' =
                 SetAdd(activeConversations, message.conversationId)
            /\ life' = [life EXCEPT ![message.conversationId] = "active"]
            /\ IF message.typeId = "text"
                 THEN /\ handleTextMessage(message.conversationId,
                                           message.content, AfterHandled)
                      /\ outcomes' = Outcome(IF pc' = "next" THEN "handled"
                                             ELSE "dispatched", "none")
                 ELSE /\ pc' = "next"
                      /\ outcomes' = Outcome("not_text", "none")
                      /\ UNCHANGED <<isActive, sent, agentResponses>>
  /\ EndOfIteration
  /\ UNCHANGED <<trackVars, now, ticks, broadcasts>>
  /\ UNCHANGED nameVars

\* ConversationFetched leaving out a conversation that the timer has removed.
ConversationFetched_RemovalWins ==
  /\ pc = "conv"
  /\ \E r \in {"found", "none", "throw"} :
       IF r = "throw"
         THEN /\ CatchMessageError
              /\ outcomes' = Outcome("lookup_threw", "none")
              /\ UNCHANGED <<isActive, sent, agentResponses, activeConversations,
                             life>>
       ELSE IF r = "none"
         THEN /\ pc' = "next"
              /\ outcomes' = Outcome("no_conversation", "none")
              /\ UNCHANGED <<isActive, sent, agentResponses, activeConversations,
                             life>>
       ELSE /\ activeConversations' =
                 IF life[message.conversationId] \in {"send_failed",
                                                     "lookup_failed"}
                   THEN activeConversations
                   ELSE SetAdd(activeConversations, message.conversationId)
            /\ life' = [life EXCEPT ![message.conversationId] =
                          IF @ \in {"send_failed", "lookup_failed"} THEN @
                          ELSE "active"]
            /\ IF message.typeId = "text"
                 THEN /\ handleTextMessage(message.conversationId,
                                           message.content, AfterHandled)
                      /\ outcomes' = Outcome(IF pc' = "next" THEN "handled"
                                             ELSE "dispatched", "none")
                 ELSE /\ pc' = "next"
                      /\ outcomes' = Outcome("not_text", "none")
                      /\ UNCHANGED <<isActive, sent, agentResponses>>
  /\ EndOfIteration
  /\ UNCHANGED <<trackVars, now, ticks, broadcasts>>
  /\ UNCHANGED nameVars

\* The conversation lookup of the tracked path returns or throws: a found
\* conversation becomes active and a text is dispatched.
ConversationFetched ==
  /\ pc = "conv"
  /\ \E r \in {"found", "none", "throw"} :
       IF r = "throw"
         THEN /\ CatchMessageError
              /\ outcomes' = Outcome("lookup_threw", "none")
              /\ UNCHANGED <<isActive, sent, agentResponses, activeConversations,
                             life>>
       ELSE IF r = "none"
         THEN /\ pc' = "next"
              /\ outcomes' = Outcome("no_conversation", "none")
              /\ UNCHANGED <<isActive, sent, agentResponses, activeConversations,
                             life>>
       ELSE /\ activeConversations' =
                 SetAdd(activeConversations, message.conversationId)
            /\ life' = [life EXCEPT ![message.conversationId] = "active"]
            /\ IF message.typeId = "text"
                 THEN /\ handleTextMessage(message.conversationId,
                                           message.content, AfterHandled)
                      /\ outcomes' = Outcome(IF pc' = "next" THEN "handled"
                                             ELSE "dispatched", "none")
                 ELSE /\ pc' = "next"
                      /\ outcomes' = Outcome("not_text", "none")
                      /\ UNCHANGED <<isActive, sent, agentResponses>>
  /\ EndOfIteration
  /\ UNCHANGED <<trackVars, now, ticks, broadcasts>>
  /\ UNCHANGED nameVars

\* StartGreetingSent sending the greeting a second time where the
\* confirmation belongs.
StartGreetingSent_NoConfirmation ==
  /\ pc = "start_gm"
  /\ \E ok \in BOOLEAN :
       IF ok
         THEN /\ isActive' = TRUE
              /\ sent' = Send(message.conversationId, TXT_GM)
              /\ pc' = "reply"
              /\ UNCHANGED outcomes
         ELSE /\ CatchMessageError
              /\ outcomes' = Outcome("send_threw", "none")
              /\ UNCHANGED <<isActive, sent>>
  /\ EndOfIteration
  /\ UNCHANGED <<activeConversations, trackVars, agentResponses, now,
                 ticks, broadcasts, life>>
  /\ UNCHANGED nameVars

\* StartGreetingSent enabling broadcasting whether the greeting send returned
\* or threw.
StartGreetingSent_EnablesAnyway ==
  /\ pc = "start_gm"
  /\ isActive' = TRUE
  /\ \E ok \in BOOLEAN :
       IF ok
         THEN /\ sent' = Send(message.conversationId, TXT_STARTED)
              /\ pc' = "reply"
              /\ UNCHANGED outcomes
         ELSE /\ CatchMessageError
              /\ outcomes' = Outcome("send_threw", "none")
              /\ UNCHANGED sent
  /\ EndOfIteration
  /\ UNCHANGED <<activeConversations, trackVars, agentResponses, now,
                 ticks, broadcasts, life>>
  /\ UNCHANGED nameVars

\* /start: the greeting send returns or throws; on success broadcasting is
\* enabled and the confirmation sent.
StartGreetingSent ==
  /\ pc = "start_gm"
  /\ \E ok \in BOOLEAN :
       IF ok
         THEN /\ isActive' = TRUE
              /\ sent' = Send(message.conversationId, TXT_STARTED)
              /\ pc' = "reply"
              /\ UNCHANGED outcomes
         ELSE /\ CatchMessageError
              /\ outcomes' = Outcome("send_threw", "none")
              /\ UNCHANGED <<isActive, sent>>
  /\ EndOfIteration
  /\ UNCHANGED <<activeConversations, trackVars, agentResponses, now, ticks, broadcasts, life>>
  /\ UNCHANGED nameVars

\* The last send of a command returns or throws; handleTextMessage returns and
\* main() goes on after its await.
ReplySent ==
  /\ pc = "reply"
  /\ \E ok \in BOOLEAN :
       IF ok
         THEN /\ AfterHandled
              /\ outcomes' = Outcome("handled", "none")
         ELSE /\ CatchMessageError
              /\ outcomes' = Outcome("send_threw", "none")
              /\ UNCHANGED agentResponses
  /\ EndOfIteration
  /\ UNCHANGED <<isActive, activeConversations, trackVars, now, sent, ticks, broadcasts, life>>
  /\ UNCHANGED nameVars

\* In the catch: the conversation lookup returns or throws; the error text is
\* sent into a found conversation.
ErrorConversationFetched ==
  /\ pc = "err_conv"
  /\ \E r \in {"found", "none", "throw"} :
       IF r = "found"
         THEN /\ sent' = Send(message.conversationId, TXT_ERROR)
              /\ pc' = "err_send"
              /\ UNCHANGED outcomes
         ELSE /\ pc' = "next"
              /\ outcomes' = Outcome(outcomes[Len(outcomes)].result, "unsent")
              /\ UNCHANGED sent
  /\ EndOfIteration
  /\ UNCHANGED <<isActive, activeConversations, trackVars, agentResponses, now, ticks, broadcasts, life>>
  /\ UNCHANGED nameVars

\* ErrorNoticeSent without the inner try: a throw of the send reaches the
\* catch of the stream.
ErrorNoticeSent_Propagates ==
  /\ pc = "err_send"
  /\ \E ok \in BOOLEAN :
       /\ pc' = IF ok THEN "err_address" ELSE "backoff"
       /\ outcomes' = Outcome(outcomes[Len(outcomes)].result,
                              IF ok THEN "sent" ELSE "unsent")
  /\ message' = message
  /\ senderAddress' = senderAddress
  /\ UNCHANGED <<isActive, activeConversations, trackVars, agentResponses, now,
                 sent, ticks, broadcasts, life>>
  /\ UNCHANGED nameVars

\* ErrorNoticeSent asking for a fresh stream when the send has thrown, from
\* inside the iteration of the stream that delivered the message.
ErrorNoticeSent_Reopens ==
  /\ pc = "err_send"
  /\ \E ok \in BOOLEAN :
       /\ pc' = IF ok THEN "err_address" ELSE "stream"
       /\ outcomes' = Outcome(outcomes[Len(outcomes)].result,
                              IF ok THEN "sent" ELSE "unsent")
  /\ message' = message
  /\ senderAddress' = senderAddress
  /\ UNCHANGED <<isActive, activeConversations, trackVars, agentResponses, now,
                 sent, ticks, broadcasts, life>>
  /\ UNCHANGED nameVars

\* In the catch: the send of the error text returns or throws.
ErrorNoticeSent ==
  /\ pc = "err_send"
  /\ \E ok \in BOOLEAN :
       /\ pc' = IF ok THEN "err_address" ELSE "next"
       /\ outcomes' = Outcome(outcomes[Len(outcomes)].result,
                              IF ok THEN "sent" ELSE "unsent")
  /\ EndOfIteration
  /\ UNCHANGED <<isActive, activeConversations, trackVars, agentResponses, now, sent, ticks, broadcasts, life>>
  /\ UNCHANGED nameVars

\* In the catch: the address lookup returns; a resolved sender's response is
\* recorded.
ErrorAddressResolved ==
  /\ pc = "err_address"
  /\ \E a \in getWalletAddressFromInboxId(message.senderInboxId) :
       agentResponses' =
         IF a = NULL THEN agentResponses
         ELSE updateAgentResponse(agentResponses, message.senderInboxId, a,
                                  message.conversationId, now)
  /\ pc' = "next"
  /\ EndOfIteration
  /\ UNCHANGED <<isActive, activeConversations, trackVars, now, sent, ticks, broadcasts, outcomes, life>>
  /\ UNCHANGED nameVars

\* BackoffElapsed asking for the new stream at once, without the sync.
BackoffElapsed_SkipSync ==
  /\ pc = "backoff"
  /\ pc' = "stream"
  /\ UNCHANGED <<isActive, activeConversations, trackVars, agentResponses, now,
                 sent, message, senderAddress, ticks, broadcasts, outcomes, life>>
  /\ UNCHANGED nameVars

\* The 5 second wait after a stream error is over: conversations are synced.
BackoffElapsed ==
  /\ pc = "backoff"
  /\ pc' = "sync"
  /\ UNCHANGED <<isActive, activeConversations, trackVars, agentResponses, now,
                 sent, message, senderAddress, ticks, broadcasts, outcomes, life>>
  /\ UNCHANGED nameVars

\* Resynced without the try around the sync: a throw reaches the catch of
\* main() and ends the process.
Resynced_Fatal ==
  /\ pc = "sync"
  /\ \E ok \in BOOLEAN : pc' = IF ok THEN "stream" ELSE "exited"
  /\ UNCHANGED <<isActive, activeConversations, trackVars, agentResponses, now,
                 sent, message, senderAddress, ticks, broadcasts, outcomes, life>>
  /\ UNCHANGED nameVars

\* Resynced switching the broadcast on again with the new stream.
Resynced_Restart ==
  /\ pc = "sync"
  /\ pc' = "stream"
  /\ isActive' = TRUE
  /\ UNCHANGED <<activeConversations, trackVars, agentResponses, now,
                 sent, message, senderAddress, ticks, broadcasts, outcomes, life>>
  /\ UNCHANGED nameVars

\* conversations.sync() returns or throws (caught): a new stream is requested.
Resynced ==
  /\ pc = "sync"
  /\ pc' = "stream"
  /\ UNCHANGED <<isActive, activeConversations, trackVars, agentResponses, now,
                 sent, message, senderAddress, ticks, broadcasts, outcomes, life>>
  /\ UNCHANGED nameVars

\* ---------------------------------------------------------- broadcast timer
TimerSet == pc \notin {"init", "init_sync", "exited"}

\* One step of `for (const conversationId of activeConversations)`: the next
\* id and its lookup, or the end of the callback.
IterNext(tk, active) ==
  IF tk.idx < Len(active)
    THEN [pc |-> "lookup", idx |-> tk.idx + 1,
          conversationId |-> active[tk.idx + 1], latestMessage |-> NoRecord,
          visited |-> tk.visited \cup {active[tk.idx + 1]}]
    ELSE DoneTick

\* TickContinue deleting the id it leaves behind.
TickContinue_Drop(k) ==
  /\ activeConversations' =
       SetDelete(activeConversations, ticks[k].conversationId)
  /\ ticks' = [j \in DOMAIN ticks |->
       LET tk == IterAfterDelete(ticks[j], activeConversations,
                                 ticks[k].conversationId)
       IN  IF j = k THEN IterNext(tk, activeConversations') ELSE tk]
  /\ UNCHANGED life

\* The loop body ends without an error: on to the next id.
TickContinue(k) ==
  /\ ticks' = [ticks EXCEPT ![k] = IterNext(@, activeConversations)]
  /\ UNCHANGED <<activeConversations, life>>

\* TickCatch without the delete.
TickCatch_KeepId(k) ==
  /\ ticks' = [ticks EXCEPT ![k] = IterNext(@, activeConversations)]
  /\ life' = [life EXCEPT ![ticks[k].conversationId] =
       IF ticks[k].pc = "lookup"
         THEN (IF @ = "send_failed" THEN @ ELSE "lookup_failed")
         ELSE "send_failed"]
  /\ UNCHANGED activeConversations

\* TickCatch leaving the loop over the ids.
TickCatch_Abort(k) ==
  LET c == ticks[k].conversationId
  IN  /\ activeConversations' = SetDelete(activeConversations, c)
      /\ ticks' = [j \in DOMAIN ticks |->
           IF j = k THEN DoneTick
           ELSE IterAfterDelete(ticks[j], activeConversations, c)]
      /\ life' = [life EXCEPT ![c] =
           IF ticks[k].pc = "lookup"
             THEN (IF @ = "send_failed" THEN @ ELSE "lookup_failed")
             ELSE "send_failed"]

\* The catch of the loop body: the id is deleted, then on to the next id.
TickCatch(k) ==
  LET c == ticks[k].conversationId
  IN  /\ activeConversations' = SetDelete(activeConversations, c)
      /\ ticks' = [j \in DOMAIN ticks |->
           LET tk == IterAfterDelete(ticks[j], activeConversations, c)
           IN  IF j = k THEN IterNext(tk, activeConversations') ELSE tk]
      /\ life' = [life EXCEPT ![c] =
           IF ticks[k].pc = "lookup"
             THEN (IF @ = "send_failed" THEN @ ELSE "lookup_failed")
             ELSE "send_failed"]

\* messageHistory.filter(msg => msg.conversationId === conversationId)
ConversationMessages(history, conversationId) ==
  SelectSeq(history, LAMBDA msg : msg.conversationId = conversationId)

\* TickFired without the look at broadcastingControl.isActive.
TickFired_Always(k) ==
  /\ TimerSet
  /\ ticks[k].pc = "idle"
  /\ \A j \in 1..(k - 1) : ticks[j].pc # "idle"
  /\ ticks' = [ticks EXCEPT ![k] = IterNext(IdleTick, activeConversations)]
  /\ UNCHANGED <<isActive, activeConversations, trackVars, agentResponses, now,
                 sent, broadcasts, pc, message, senderAddress, outcomes, life>>
  /\ UNCHANGED nameVars

\* The interval fires: nothing when broadcasting is off, else the iteration
\* starts.
TickFired(k) ==
  /\ TimerSet
  /\ ticks[k].pc = "idle"
  /\ \A j \in 1..(k - 1) : ticks[j].pc # "idle"
  /\ ticks' = [ticks EXCEPT ![k] =
       IF ~isActive THEN SkippedTick
       ELSE IterNext(IdleTick, activeConversations)]
  /\ UNCHANGED <<isActive, activeConversations, trackVars, agentResponses, now,
                 sent, broadcasts, pc, message, senderAddress, outcomes, life>>
  /\ UNCHANGED nameVars

\* The lookup of the callback returns or throws: "ping" is sent into a found
\* conversation that has a latest message.
TickConversationFetched(k) ==
  /\ ticks[k].pc = "lookup"
  /\ \E r \in {"found", "none", "throw"} :
       LET c == ticks[k].conversationId
           conversationMessages == ConversationMessages(messageHistory, c)
           latestMessage == conversationMessages[Len(conversationMessages)]
       IN  IF r = "throw"
             THEN TickCatch(k) /\ UNCHANGED broadcasts
           ELSE IF r = "none" \/ Len(conversationMessages) = 0
             THEN TickContinue(k) /\ UNCHANGED broadcasts
           ELSE IF IsSkipAddress(latestMessage.senderAddress)
             THEN TickContinue(k) /\ UNCHANGED broadcasts
           ELSE /\ broadcasts' = [broadcasts EXCEPT ![c].ping = @ + 1]
                /\ ticks' = [ticks EXCEPT ![k].pc = "ping",
                                          ![k].latestMessage = latestMessage]
                /\ UNCHANGED <<activeConversations, life>>
  /\ UNCHANGED <<isActive, trackVars, agentResponses, now, sent, pc, message,
                 senderAddress, outcomes>>
  /\ UNCHANGED nameVars

\* The send of "ping" returns or throws: "GM" follows a successful one.
TickPingSent(k) ==
  /\ ticks[k].pc = "ping"
  /\ \E ok \in BOOLEAN :
       IF ok
         THEN /\ broadcasts' = [broadcasts EXCEPT ![ticks[k].conversationId].gm = @ + 1]
              /\ ticks' = [ticks EXCEPT ![k].pc = "gm"]
              /\ UNCHANGED <<activeConversations, life>>
         ELSE TickCatch(k) /\ UNCHANGED broadcasts
  /\ UNCHANGED <<isActive, trackVars, agentResponses, now, sent, pc, message,
                 senderAddress, outcomes>>
  /\ UNCHANGED nameVars

\* TickGreetingSent recording the time of the latest message instead of the
\* time of the send.
TickGreetingSent_MessageTime(k) ==
  /\ ticks[k].pc = "gm"
  /\ \E ok \in BOOLEAN :
       IF ok
         THEN /\ agentResponses' =
                   updateAgentResponse(agentResponses,
                     ticks[k].latestMessage.senderInboxId,
                     ticks[k].latestMessage.senderAddress,
                     ticks[k].conversationId,
                     ticks[k].latestMessage.timestamp)
              /\ TickContinue(k)
         ELSE TickCatch(k) /\ UNCHANGED agentResponses
  /\ UNCHANGED <<isActive, trackVars, now, sent, broadcasts, pc, message,
                 senderAddress, outcomes>>
  /\ UNCHANGED nameVars

\* TickGreetingSent recording the response whether the send returned or
\* threw.
TickGreetingSent_RecordsAnyway(k) ==
  /\ ticks[k].pc = "gm"
  /\ agentResponses' =
       updateAgentResponse(agentResponses,
         ticks[k].latestMessage.senderInboxId,
         ticks[k].latestMessage.senderAddress,
         ticks[k].conversationId, now)
  /\ \E ok \in BOOLEAN : IF ok THEN TickContinue(k) ELSE TickCatch(k)
  /\ UNCHANGED <<isActive, trackVars, now, sent, broadcasts, pc, message,
                 senderAddress, outcomes>>
  /\ UNCHANGED nameVars

\* The send of "GM" returns or throws: after a successful one the response to
\* the sender of the latest message is recorded.
TickGreetingSent(k) ==
  /\ ticks[k].pc = "gm"
  /\ \E ok \in BOOLEAN :
       IF ok
         THEN /\ agentResponses' =
                   updateAgentResponse(agentResponses,
                     ticks[k].latestMessage.senderInboxId,
                     ticks[k].latestMessage.senderAddress,
                     ticks[k].conversationId, now)
              /\ TickContinue(k)
         ELSE TickCatch(k) /\ UNCHANGED agentResponses
  /\ UNCHANGED <<isActive, trackVars, now, sent, broadcasts, pc, message,
                 senderAddress, outcomes>>
  /\ UNCHANGED nameVars

\* ------------------------------------------------------------------- clock
TimePasses ==
  /\ TimerSet
  /\ now < MaxTime
  /\ now' = now + 1
  /\ UNCHANGED <<isActive, activeConversations, trackVars, agentResponses,
                 sent, pc, message, senderAddress, ticks, broadcasts, outcomes, life>>
  /\ UNCHANGED nameVars

\* ----------------------------------------------------------- specification
\* The program with the clock standing still.
Next ==
  \/ Startup
  \/ InitialSync
  \/ StreamOpened
  \/ \E m \in StreamMessages : StreamMessage(m)
  \/ StreamFailed
  \/ AddressResolved
  \/ SkipConversationFetched
  \/ MessageTracked
  \/ ConversationFetched
  \/ StartGreetingSent
  \/ ReplySent
  \/ ErrorConversationFetched
  \/ ErrorNoticeSent
  \/ ErrorAddressResolved
  \/ BackoffElapsed
  \/ Resynced
  \/ \E k \in 1..MaxTicks : TickFired(k)
  \/ \E k \in 1..MaxTicks : TickConversationFetched(k)
  \/ \E k \in 1..MaxTicks : TickPingSent(k)
  \/ \E k \in 1..MaxTicks : TickGreetingSent(k)

Spec == Init /\ [][Next]_vars

\* The writers of agentResponses and of the timestamps, with the clock
\* running and the interval firing once.
NextTimed ==
  \/ Startup
  \/ InitialSync
  \/ StreamOpened
  \/ \E m \in TimedMessages : StreamMessage(m)
  \/ AddressResolved
  \/ SkipConversationFetched
  \/ MessageTracked
  \/ ConversationFetched
  \/ ReplySent
  \/ ErrorConversationFetched
  \/ ErrorNoticeSent
  \/ ErrorAddressResolved
  \/ TickFired(1)
  \/ TickConversationFetched(1)
  \/ TickPingSent(1)
  \/ TickGreetingSent(1)
  \/ TimePasses

SpecTimed == Init /\ [][NextTimed]_vars

\* The ingestion loop with every message of the stream and every outcome of
\* its calls, the clock standing still and the interval firing once.
NextLoop ==
  \/ Startup
  \/ InitialSync
  \/ StreamOpened
  \/ \E m \in LoopMessages : StreamMessage(m)
  \/ StreamFailed
  \/ AddressResolved
  \/ SkipConversationFetched
  \/ MessageTracked
  \/ ConversationFetched
  \/ StartGreetingSent
  \/ ReplySent
  \/ ErrorConversationFetched
  \/ ErrorNoticeSent
  \/ ErrorAddressResolved
  \/ BackoffElapsed
  \/ Resynced
  \/ TickFired(1)
  \/ TickConversationFetched(1)
  \/ TickPingSent(1)
  \/ TickGreetingSent(1)

SpecLoop == Init /\ [][NextLoop]_vars

\* The loop when the wait of the backoff and the call of the re-sync come to
\* an end: setTimeout fires, and conversations.sync() returns or throws.
SpecLive ==
  /\ Init
  /\ [][NextLoop]_vars
  /\ WF_vars(BackoffElapsed)
  /\ WF_vars(Resynced)

\* The loop with a stream that may also end: every way in which one stream
\* is followed by the next.
NextStream ==
  \/ NextLoop
  \/ StreamEnded

SpecStream == Init /\ [][NextStream]_vars

\* ------------------------------------------------- one sender's commands
\* Bob switching the broadcast off and asking for its status, with another
\* text in between.
StatusMessages ==
  {[senderInboxId |-> Bob, conversationId |-> "conv1", typeId |-> "text",
    content |-> t] :
     t \in {<<"/","s","t","o","p">>, <<"/","S","T","A","T","U","S","\n">>,
            <<"h","i">>}}

NextStatus ==
  \/ Startup
  \/ InitialSync
  \/ StreamOpened
  \/ \E m \in StatusMessages : TakeMessage(m, MaxStatusMsgs)
  \/ StreamFailed
  \/ AddressResolved
  \/ MessageTracked
  \/ ConversationFetched
  \/ ReplySent
  \/ ErrorConversationFetched
  \/ ErrorNoticeSent
  \/ ErrorAddressResolved
  \/ BackoffElapsed
  \/ Resynced
  \/ TickFired(1)
  \/ TickConversationFetched(1)
  \/ TickPingSent(1)
  \/ TickGreetingSent(1)

SpecStatus == Init /\ [][NextStatus]_vars

\* ------------------------------------------------------ dispatcher alone
\* The texts a sender may write: the commands in several spellings, texts
\* with "gm" in them, and texts that are neither.
DispatchTexts ==
  {
    <<"/","s","t","a","r","t">>, <<" ","/","S","t","a","r","t"," ">>,
    <<"/","S","T","A","R","T","\n">>, <<"/","s","t","o","p">>,
    <<"\t","/","S","t","o","p">>, <<"/","s","t","a","t","u","s">>,
    <<"/","S","T","A","T","U","S"," ">>, <<"/","s","t","a","t","s">>,
    <<" ","/","S","t","a","t","s">>, <<"/","r","e","p","o","r","t">>,
    <<"/","R","E","P","O","R","T","\n">>, <<"/","p","r","o","f","i","l","e">>,
    <<" ","/","P","r","o","f","i","l","e"," ">>, <<"g","m">>, <<"G","M">>,
    <<" ","g","M"," ">>, <<"h","i"," ","G","m","!">>,
    <<"/","s","t","a","r","t"," ","g","m">>, <<"/","s","t","o","p","g","m">>,
    <<"o","g","m","a">>, <<"h","i">>, << >>, <<" ">>,
    <<"/","s","t","a","r","t","s">>, <<"/","s","t","o","p"," ","n","o","w">>,
    <<"s","t","a","r","t">>, <<"/"," ","s","t","a","t","s">>, <<"g"," ","m">>,
    <<"m","g">>, <<"/","r","e","p","o","r">>
  }

DispatchMessages ==
  {[senderInboxId |-> i, conversationId |-> "conv1", typeId |-> "text",
    content |-> t] : i \in {Alice, Excluded}, t \in DispatchTexts}

\* The times of the clock in milliseconds when the message arrives.
DispatchTimes == {29999, 30000, 59999, 60000, 3661000}

PriorRecord(inboxId, time) ==
  [senderInboxId |-> inboxId, senderAddress |-> IdentifierOf(inboxId),
   timestamp |-> time, conversationId |-> "conv1",
   messageContent |-> <<"h","i">>, contentType |-> "text"]

PriorResponse(inboxId, time) ==
  [senderInboxId |-> inboxId, senderAddress |-> IdentifierOf(inboxId),
   lastResponseTime |-> time, conversationId |-> "conv1"]

\* What the earlier messages of the stream have left behind: the history and
\* the response map.
PriorStates ==
  {[history |-> << >>, responses |-> << >>],
   [history |-> <<PriorRecord(Bob, 0)>>, responses |-> << >>],
   [history |-> <<PriorRecord(Bob, 0)>>,
    responses |-> (Bob :> PriorResponse(Bob, 0))],
   [history |-> <<PriorRecord(Alice, 0), PriorRecord(Bob, 0),
                  PriorRecord(Bob, 1000)>>,
    responses |-> (Alice :> PriorResponse(Alice, 0)) @@
                  (Bob :> PriorResponse(Bob, 1000))]}

\* The loop has just taken a message from the stream and awaits the address
\* of its sender.
InitDispatch ==
  \E m \in DispatchMessages, prior \in PriorStates, time \in DispatchTimes,
     active \in BOOLEAN :
    /\ isActive = active
    /\ activeConversations =
         IF prior.history = << >> THEN << >> ELSE <<"conv1">>
    /\ messageHistory = prior.history
    /\ uniqueSenders =
         {prior.history[i].senderInboxId : i \in 1..Len(prior.history)}
    /\ uniqueWalletAddresses =
         {prior.history[i].senderAddress : i \in 1..Len(prior.history)}
    /\ agentResponses = prior.responses
    /\ now = time
    /\ sent = << >>
    /\ broadcasts = [c \in Conversations |-> [ping |-> 0, gm |-> 0]]
    /\ pc = "address"
    /\ message = m
    /\ senderAddress = NULL
    /\ ticks = [k \in 1..MaxTicks |-> IdleTick]
    /\ outcomes = <<[sender |-> m.senderInboxId, record |-> 0,
                     notice |-> "none", sentBefore |-> 0,
                     result |-> "pending"]>>
    /\ life = [c \in Conversations |->
                IF c = "conv1" /\ prior.history # << >> THEN "active"
                ELSE "new"]
    /\ basenameCache = << >>
    /\ lookups = << >>

\* The processing of that one message.
NextDispatch ==
  \/ AddressResolved
  \/ SkipConversationFetched
  \/ MessageTracked
  \/ ConversationFetched
  \/ StartGreetingSent
  \/ ReplySent
  \/ ErrorConversationFetched
  \/ ErrorNoticeSent
  \/ ErrorAddressResolved

SpecDispatch == InitDispatch /\ [][NextDispatch]_vars

\* --------------------------------------------------------- the name cache
\* getBasename of helpers/basenames.ts with its Map.  A call runs to its
\* first await, the read of the primary RPC client, unless the cache answers
\* it; it is resumed by that read returning or throwing, and after a
\* rate-limit error once more by the read of the fallback client.  Calls
\* overlap: /stats and /report start one per record inside Promise.all.
CACHE_DURATION_MS == 5 * 60 * 1000

\* undefined, what an async function returns without a return statement.
UNDEFINED == <<"undefined">>

\* The result of a call that has not returned.
PENDING == <<"pending">>

\* The addresses that are looked up: two spellings of one and another one.
CacheAddresses ==
  {<<"0","x","a","b","c","1","2","3">>, <<"0","x","A","B","C","1","2","3">>,
   <<"0","x","d","e","f","4","5","6">>}

\* What the resolver contract holds for an address at the time of a read: a
\* name, or the empty string.
RpcNames ==
  {<<"a","l","i","c","e",".","b","a","s","e",".","e","t","h">>, << >>}

\* The errors of readContract: a rate-limit error (message or status 429) and
\* any other.
RATE_LIMIT == <<"rate limit">>
OTHER_ERROR == <<"other">>
RpcErrors == {RATE_LIMIT, OTHER_ERROR}

\* The times at which the clock is read.
CacheTimes ==
  {t \in {0, CACHE_DURATION_MS - 1, CACHE_DURATION_MS,
          2 * CACHE_DURATION_MS - 1} : t <= MaxCacheTime}

\* basenameCache.set(key, {basename, timestamp: Date.now()}); by is history:
\* the call that wrote the entry.
CacheSet(key, basename, i) ==
  [k \in DOMAIN basenameCache \cup {key} |->
     IF k = key THEN [basename |-> basename, timestamp |-> now, by |-> i]
     ELSE basenameCache[k]]

\* `cached && (Date.now() - cached.timestamp) < CACHE_DURATION_MS`.
CacheAnswers(key) ==
  /\ key \in DOMAIN basenameCache
  /\ now - basenameCache[key].timestamp < CACHE_DURATION_MS

\* A read returned: the result is cached, a name is returned and for the
\* empty string nothing.
LookupResolved(i, basename) ==
  LET result == IF basename # << >> THEN basename ELSE NULL
  IN  /\ basenameCache' =
           CacheSet(ToLowerCase(lookups[i].address), result, i)
      /\ lookups' = [lookups EXCEPT
                       ![i].pc = "done",
                       ![i].returned = IF result # NULL THEN result
                                       ELSE UNDEFINED]

\* The outer catch: the failure is cached as no name, nothing is returned.
LookupFailed(i) ==
  /\ basenameCache' = CacheSet(ToLowerCase(lookups[i].address), NULL, i)
  /\ lookups' = [lookups EXCEPT ![i].pc = "done", ![i].returned = UNDEFINED]

\* getBasename(address) up to its first await or, when the cache answers, to
\* its return.
getBasename(address) ==
  /\ Len(lookups) < MaxLookups
  /\ LET cacheKey == ToLowerCase(address)
     IN  lookups' = Append(lookups,
           IF CacheAnswers(cacheKey)
             THEN [address |-> address, started |-> now, pc |-> "done",
                   rpc |-> 0, returned |-> basenameCache[cacheKey].basename,
                   read |-> basenameCache[cacheKey].by,
                   expired |-> FALSE]
             ELSE [address |-> address, started |-> now, pc |-> "primary",
                   rpc |-> 1, returned |-> PENDING, read |-> 0,
                   expired |-> cacheKey \in DOMAIN basenameCache])
  /\ UNCHANGED <<basenameCache, now, mainVars>>

\* baseClient.readContract returns or throws.
PrimaryReturned(i) ==
  /\ i \in 1..Len(lookups)
  /\ lookups[i].pc = "primary"
  /\ \E r \in RpcNames \cup RpcErrors :
       IF r \in RpcNames THEN LookupResolved(i, r)
       ELSE IF r = RATE_LIMIT
         THEN /\ lookups' = [lookups EXCEPT ![i].pc = "fallback",
                                            ![i].rpc = 2]
              /\ UNCHANGED basenameCache
       ELSE LookupFailed(i)
  /\ UNCHANGED <<now, mainVars>>

\* fallbackBaseClient.readContract returns or throws; its error is replaced
\* by the one of the primary client.
FallbackReturned(i) ==
  /\ i \in 1..Len(lookups)
  /\ lookups[i].pc = "fallback"
  /\ \E r \in RpcNames \cup {OTHER_ERROR} :
       IF r \in RpcNames THEN LookupResolved(i, r) ELSE LookupFailed(i)
  /\ UNCHANGED <<now, mainVars>>

\* Time passes between two runs of the program.
ClockAdvances ==
  /\ \E t \in CacheTimes : t > now /\ now' = t
  /\ UNCHANGED <<nameVars, mainVars>>

NextCache ==
  \/ \E a \in CacheAddresses : getBasename(a)
  \/ \E i \in 1..MaxLookups : PrimaryReturned(i)
  \/ \E i \in 1..MaxLookups : FallbackReturned(i)
  \/ ClockAdvances

SpecCache == Init /\ [][NextCache]_vars

\* ------------------------------------------------------------------ claims
\* The positions of the loop between the delivery of a message and the end
\* of its processing.
Processing ==
  pc \in {"address", "skip_conv", "display", "conv", "start_gm", "reply",
          "err_conv", "err_send", "err_address"}

\* The processing of the i-th delivered message is over.
Finished(i) == i < Len(outcomes) \/ ~Processing

\* The i-th delivered message reached the dispatcher: a text of another
\* sender whose address resolved and whose conversation was found, and the
\* dispatcher has returned or thrown.
Dispatched(i) == outcomes[i].result \in {"handled", "send_threw"}

\* C1: the step that takes a message of the agent's own inbox id (compared
\* without regard to case) from the stream drops it: no record is appended,
\* nothing is sent, the active set, the response map, the sender sets and
\* the broadcasting flag stay as they are, and the loop waits for the next
\* message.
C1_OwnMessageIgnored ==
  [][(/\ Len(outcomes') = Len(outcomes) + 1
      /\ ToLowerCase(outcomes'[Len(outcomes')].sender)
           = ToLowerCase(ClientInboxId))
     => /\ outcomes'[Len(outcomes')].result = "own"
        /\ pc' = "next"
        /\ UNCHANGED <<messageHistory, uniqueSenders, uniqueWalletAddresses,
                       sent, broadcasts, activeConversations, agentResponses,
                       isActive>>]_vars

\* A message whose sender id differs from the agent's only in case has been
\* dropped.
C1_Witness ==
  \E i \in 1..Len(outcomes) :
    /\ outcomes[i].sender # ClientInboxId
    /\ outcomes[i].result = "own"

C3_AsStated ==
  \A c \in Conversations :
    c \in SeqToSet(activeConversations)
      <=> (life[c] # "new" /\ life[c] # "send_failed")

\* C3 amended: a conversation id is in the active set iff the loop has found
\* the conversation of a tracked message with that id and, since the id was
\* last added, no broadcast tick has caught an error of the lookup or of a
\* send for it.
C3_ActiveIffAddedAndNoCatch ==
  \A c \in Conversations :
    c \in SeqToSet(activeConversations) <=> life[c] = "active"

\* A tick's lookup threw for an id that had been added, and the id is gone.
C3_Witness ==
  \E c \in Conversations :
    /\ life[c] = "lookup_failed"
    /\ c \notin SeqToSet(activeConversations)
    /\ \E i \in 1..Len(messageHistory) : messageHistory[i].conversationId = c

\* Tick k takes an id from the active set in this step.
Picks(k) ==
  /\ ticks'[k].pc = "lookup"
  /\ \/ ticks[k].pc # "lookup"
     \/ ticks'[k].conversationId # ticks[k].conversationId
     \/ ticks'[k].idx > ticks[k].idx

C5_OneRecordMonotoneTime ==
  [][/\ \A k1, k2 \in DOMAIN agentResponses' :
          agentResponses'[k1].senderInboxId = agentResponses'[k2].senderInboxId
            => k1 = k2
     /\ \A k1 \in DOMAIN agentResponses :
          /\ k1 \in DOMAIN agentResponses'
          /\ agentResponses'[k1].lastResponseTime
               >= agentResponses[k1].lastResponseTime]_vars

\* Two senders have a record, one of them written after the clock has moved.
C5_Witness ==
  /\ Cardinality(DOMAIN agentResponses) >= 2
  /\ \E k1 \in DOMAIN agentResponses :
       agentResponses[k1].lastResponseTime >= 1

\* The agent has sent something into conversation c.
RepliedTo(c) ==
  \/ \E i \in 1..Len(sent) : sent[i].conversationId = c
  \/ broadcasts[c].ping + broadcasts[c].gm > 0

Upserts(s) ==
  /\ DOMAIN agentResponses' = DOMAIN agentResponses \cup {s}
  /\ agentResponses'[s].senderInboxId = s
  /\ agentResponses'[s].lastResponseTime = now
  /\ \A k1 \in DOMAIN agentResponses \ {s} :
       agentResponses'[k1] = agentResponses[k1]

HandledCommand(i, cmd) ==
  /\ outcomes[i].result = "handled"
  /\ outcomes[i].record # 0
  /\ messageHistory[outcomes[i].record].contentType = "text"
  /\ Trim(ToLowerCase(messageHistory[outcomes[i].record].messageContent)) = cmd

\* C7: when the last two messages were /start and then /stop of one
\* conversation and every send of the dispatcher succeeded, broadcasting is
\* off and what the dispatcher has sent since /start arrived is "GM", the
\* start confirmation and the stop confirmation, in this order and all into
\* that conversation.
C7_StartThenStop ==
  LET n == Len(outcomes)
      c == messageHistory[outcomes[n].record].conversationId
  IN  (/\ n >= 2
       /\ HandledCommand(n - 1, CMD_START)
       /\ HandledCommand(n, CMD_STOP)
       /\ messageHistory[outcomes[n - 1].record].conversationId = c
       /\ Finished(n))
      => /\ isActive = FALSE
         /\ SubSeq(sent, outcomes[n - 1].sentBefore + 1, Len(sent))
              = <<[conversationId |-> c, text |-> TXT_GM],
                  [conversationId |-> c, text |-> TXT_STARTED],
                  [conversationId |-> c, text |-> TXT_STOPPED]>>

\* /start and then /stop have been handled.
C7_Witness ==
  /\ Len(outcomes) >= 2
  /\ HandledCommand(Len(outcomes) - 1, CMD_START)
  /\ HandledCommand(Len(outcomes), CMD_STOP)
  /\ Finished(Len(outcomes))

\* The loop is dispatching, or inside the dispatcher for, a text that is the
\* command cmd.
AtCommand(cmd) ==
  /\ message.typeId = "text"
  /\ Trim(ToLowerCase(message.content)) = cmd

C9_InactiveTickNoOp ==
  [][\A k \in 1..MaxTicks :
       /\ (ticks[k].pc = "idle" /\ ticks'[k].pc # "idle" /\ ~isActive)
            => /\ ticks'[k] = SkippedTick
               /\ UNCHANGED <<activeConversations, messageHistory,
                              agentResponses, sent, broadcasts, life>>
       /\ ticks[k].pc = "skipped" => ticks'[k] = ticks[k]]_vars

\* A tick has been skipped although there was a conversation to greet.
C9_Witness ==
  \E k \in 1..MaxTicks :
    /\ ticks[k].pc = "skipped"
    /\ activeConversations # << >>
    /\ ~isActive

InBody(tk) == tk.pc \in {"lookup", "ping", "gm"}

\* Tick k takes a step of its own (another tick's delete only moves the
\* position of k's iterator back by one).
Acted(k) ==
  /\ InBody(ticks[k])
  /\ ticks'[k] # ticks[k]
  /\ ticks'[k] # [ticks[k] EXCEPT !.idx = @ - 1]

\* C10: a step of a tick removes from the active set at most the id the tick
\* is at, and a tick ends only when it has been at every id that is in the
\* active set: an error for one id does not end it.
C10_FailureDoesNotAbortTick ==
  [][/\ SeqToSet(activeConversations) \ SeqToSet(activeConversations')
          \subseteq {ticks[k].conversationId : k \in {j \in 1..MaxTicks : Acted(j)}}
     /\ \A k \in 1..MaxTicks :
          (Acted(k) /\ ticks'[k].pc = "done")
            => SeqToSet(activeConversations') \subseteq ticks[k].visited]_vars

\* The only running tick is at an id after an error for another id it has
\* been at.
C10_Witness ==
  \E k \in 1..MaxTicks, c \in Conversations :
    /\ InBody(ticks[k])
    /\ ticks[k].conversationId # c
    /\ c \in ticks[k].visited
    /\ life[c] \in {"lookup_failed", "send_failed"}
    /\ \A j \in 1..MaxTicks \ {k} : ticks[j].pc = "idle"

\* The error text of the i-th delivered message was sent, or its send tried.
NoticeTried(i) ==
  \E j \in (outcomes[i].sentBefore + 1)..Len(sent) :
    /\ sent[j].text = TXT_ERROR
    /\ i < Len(outcomes) => j <= outcomes[i + 1].sentBefore

\* C11: a throw while a message is processed leads into the catch of that
\* message; there the conversation is looked up and the error text sent into
\* the conversation of the message; whatever the lookup and the send do, the
\* loop goes from the processing of a message only to the next message of
\* the stream, never to the backoff, the re-sync or a new stream.
C11_MessageErrorIsolated ==
  [][pc' # pc =>
       /\ Processing => (pc' = "next" \/ Processing')
       /\ (/\ Len(outcomes) >= 1
           /\ Len(outcomes') = Len(outcomes)
           /\ outcomes'[Len(outcomes')].result \in {"lookup_threw", "send_threw"}
           /\ outcomes[Len(outcomes)].result
                \notin {"lookup_threw", "send_threw"})
          => pc' = "err_conv"
       /\ pc = "err_conv" =>
            \/ pc' = "next" /\ sent' = sent
            \/ /\ pc' = "err_send"
               /\ sent' = Append(sent, [conversationId |-> message.conversationId,
                                        text |-> TXT_ERROR])
       /\ pc = "err_send" => pc' \in {"err_address", "next"}
       /\ pc = "err_address" => pc' = "next"]_vars

\* The send of the error text for the first message threw and the loop has
\* taken the next message from the stream.
C11_Witness ==
  /\ Len(outcomes) >= 2
  /\ outcomes[1].result \in {"lookup_threw", "send_threw"}
  /\ outcomes[1].notice = "unsent"
  /\ NoticeTried(1)
  /\ pc = "address"

\* C12: a failure of the stream request or of the stream iteration leads to
\* the backoff wait, the wait to the re-sync attempt and the re-sync attempt
\* to the request of a new stream; a stream is requested only after the
\* first sync or after a re-sync attempt that followed a backoff.
C12_BackoffResyncStream ==
  [][pc' # pc =>
       /\ (pc = "stream" /\ pc' # "next") => pc' = "backoff"
       /\ (pc = "next" /\ ~Processing') => pc' = "backoff"
       /\ pc' = "backoff" => pc \in {"stream", "next"}
       /\ pc = "backoff" => pc' = "sync"
       /\ pc' = "sync" => pc = "backoff"
       /\ pc = "sync" => pc' = "stream"
       /\ pc' = "stream" => pc \in {"init_sync", "sync"}]_vars

\* The stream has failed after it delivered a message and the re-sync is
\* being awaited.
C12_Witness ==
  /\ pc = "sync"
  /\ Len(outcomes) >= 1

\* C13: once the initialization is over the process never exits, and after
\* every failure of the stream, whatever failed before, a new stream is
\* requested again, provided the backoff wait and the re-sync call end.
C13_LoopNeverEnds ==
  /\ [][pc \notin {"init", "init_sync"} => pc' # "exited"]_vars
  /\ (pc \in {"backoff", "sync"}) ~> (pc = "stream")

\* A new stream is being requested after a message whose error text could
\* not be sent and a failure of the stream.
C13_Witness ==
  /\ pc = "stream"
  /\ Len(outcomes) >= 1
  /\ outcomes[1].result \in {"lookup_threw", "send_threw"}
  /\ outcomes[1].notice = "unsent"

\* C14: no call of conversations.sync(), the first one or one after a stream
\* failure, ends the process when it throws: the step that follows the call
\* never is the exit.
C14_SyncFailureNeverFatal ==
  [][(pc \in {"init_sync", "sync"}) => pc' # "exited"]_vars

\* C15: the step that follows the creation of the signer and the client and
\* the identifier lookup is either the first sync or the exit of the process
\* (process.exit(1), the only exit of main()); after the exit no step is
\* taken, and at the exit no stream has been requested, no tick has fired,
\* no message has been taken from the stream and nothing has been sent.
C15_InitFailureFatal ==
  /\ [][/\ pc # "exited"
        /\ pc = "init" => pc' \in {"init_sync", "exited"}
        /\ pc' = "exited" => pc \in {"init", "init_sync"}]_vars
  /\ [](pc = "exited" =>
          /\ ~TimerSet
          /\ \A k \in 1..MaxTicks : ticks[k] = IdleTick
          /\ outcomes = << >>
          /\ messageHistory = << >>
          /\ sent = << >>
          /\ activeConversations = << >>
          /\ agentResponses = << >>
          /\ \A c \in Conversations : broadcasts[c] = [ping |-> 0, gm |-> 0])

\* The process has exited.
C15_Witness == pc = "exited"

\* The last delivered message got the result r in this step.
Results(r) ==
  /\ Len(outcomes') >= 1
  /\ outcomes'[Len(outcomes')].result = r
  /\ \/ Len(outcomes) < Len(outcomes')
     \/ outcomes[Len(outcomes)].result # r

\* C16: the step in which the address lookup of a message returns nothing
\* (the lookup found nothing or threw) ends the processing of the message:
\* no record is appended, the active set, the sender sets, the response map
\* and the flag stay as they are, nothing is sent, the catch of the message
\* is not entered and the loop waits for the next message.
C16_UnresolvedAddressDiscarded ==
  /\ [][Results("no_address") =>
          /\ pc = "address"
          /\ pc' = "next"
          /\ UNCHANGED <<messageHistory, uniqueSenders, uniqueWalletAddresses,
                         activeConversations, agentResponses, sent, broadcasts,
                         isActive>>]_vars
  /\ [][(pc = "address" /\ pc' # pc) =>
          pc' \in {"next", "skip_conv", "display"}]_vars
  /\ [](\A i \in 1..Len(outcomes) :
          outcomes[i].result = "no_address" =>
            outcomes[i].record = 0 /\ outcomes[i].notice = "none")

\* A message whose address did not resolve was dropped and the next message
\* has been taken from the stream.
C16_Witness ==
  /\ Len(outcomes) = 2
  /\ outcomes[1].result = "no_address"
  /\ messageHistory = << >>
  /\ pc = "address"

\* C17: the step in which the conversation lookup of a message returns no
\* conversation ends the processing of the message: the id is not added to
\* the active set, the dispatcher is not called (nothing is sent, the flag
\* stays), no response record is written, and the loop waits for the next
\* message; the catch of the message is not entered.
C17_MissingConversationSkipped ==
  /\ [][Results("no_conversation") =>
          /\ pc \in {"conv", "skip_conv"}
          /\ pc' = "next"
          /\ UNCHANGED <<activeConversations, agentResponses, sent, broadcasts,
                         isActive, messageHistory, uniqueSenders,
                         uniqueWalletAddresses>>]_vars
  /\ [](\A i \in 1..Len(outcomes) :
          outcomes[i].result = "no_conversation" =>
            /\ outcomes[i].notice = "none"
            /\ ~NoticeTried(i)
            /\ i < Len(outcomes) => outcomes[i + 1].sentBefore = outcomes[i].sentBefore)

\* The conversation of a recorded message was not found, and the next
\* message has been taken from the stream while no id is active.
C17_Witness ==
  /\ Len(outcomes) = 2
  /\ outcomes[1].result = "no_conversation"
  /\ outcomes[1].record = 1
  /\ activeConversations = << >>
  /\ pc = "address"

\* In this step the dispatcher returns, without an error, for the first
\* message of the program, a text that is no command and holds "gm".
FirstGreetingHandled ==
  /\ Len(outcomes) = 1
  /\ Results("handled")
  /\ message.typeId = "text"
  /\ Trim(ToLowerCase(message.content)) \notin {CMD_START, CMD_STOP, CMD_STATUS}
  /\ Includes(ToLowerCase(message.content), SUB_GM)

\* After the step the loop has sent "GM" into the conversation of the
\* message and nothing else, the history holds the record of the message and
\* no other, and the response map the record of its sender and no other.
GreetingRecorded ==
  /\ sent' = <<[conversationId |-> message.conversationId, text |-> TXT_GM]>>
  /\ Len(messageHistory') = 1
  /\ messageHistory'[1].senderInboxId = message.senderInboxId
  /\ messageHistory'[1].senderAddress = IdentifierOf(message.senderInboxId)
  /\ messageHistory'[1].conversationId = message.conversationId
  /\ messageHistory'[1].messageContent = message.content
  /\ DOMAIN agentResponses' = {message.senderInboxId}
  /\ agentResponses'[message.senderInboxId].senderInboxId = message.senderInboxId
  /\ agentResponses'[message.senderInboxId].conversationId = message.conversationId

ReadAs(text) == Str(Trim(ToLowerCase(text)))

RecognizedCommands ==
  {"/start", "/stop", "/status", "/stats", "/report", "/profile"}

HoldsGm(text) == Includes(ToLowerCase(text), <<"g","m">>)

\* This step hands the text of the message to the dispatcher.
Dispatching ==
  /\ pc \in {"conv", "skip_conv"}
  /\ message.typeId = "text"
  /\ outcomes'[Len(outcomes')].result \in {"handled", "dispatched"}

\* C19: a text that, lower-cased and trimmed, is no recognized command and
\* holds no "gm" makes the dispatcher send nothing and leaves isActive, the
\* message history and the sender set as they are; the response map is the
\* one it was given, on the tracked path with the upsert main() makes once
\* the dispatcher has returned.
C19_UnrecognizedTextNoEffect ==
  [][(/\ Dispatching
      /\ ReadAs(message.content) \notin RecognizedCommands
      /\ ~HoldsGm(message.content))
     => /\ sent' = sent
        /\ isActive' = isActive
        /\ messageHistory' = messageHistory
        /\ uniqueSenders' = uniqueSenders
        /\ uniqueWalletAddresses' = uniqueWalletAddresses
        /\ pc' = "next"
        /\ agentResponses' =
             IF pc = "skip_conv" THEN agentResponses
             ELSE updateAgentResponse(agentResponses, message.senderInboxId,
                                      senderAddress, message.conversationId,
                                      now)]_vars

\* The message " " of Alice was recorded and handled, and nothing was sent.
C19_Witness ==
  /\ pc = "next"
  /\ outcomes[Len(outcomes)].result = "handled"
  /\ outcomes[Len(outcomes)].record = Len(messageHistory)
  /\ Len(messageHistory) > 0
  /\ messageHistory[Len(messageHistory)].messageContent = <<" ">>
  /\ Len(sent) = outcomes[Len(outcomes)].sentBefore

\* C20: the text is read lower-cased and trimmed; read as /start, /stop,
\* /status, /stats, /report or /profile it is handled as that command and not
\* as a greeting; any other text gets the one reply "GM" when it holds "gm"
\* in any letter case, and no reply when it does not.
C20_CommandRecognition ==
  [][/\ Dispatching =>
          LET command == ReadAs(message.content)
              reply(text) ==
                Append(sent, [conversationId |-> message.conversationId,
                              text |-> text])
          IN  CASE command = "/start" ->
                     sent' = reply(TXT_GM) /\ pc' = "start_gm"
                [] command = "/stop" ->
                     /\ sent' = reply(TXT_STOPPED)
                     /\ isActive' = FALSE
                     /\ pc' = "reply"
                [] command = "/status" ->
                     /\ sent' = reply(IF isActive THEN TXT_STATUS_ON
                                      ELSE TXT_STATUS_OFF)
                     /\ pc' = "reply"
                [] command = "/stats" ->
                     /\ sent' = reply(statsMessage(messageHistory, isActive))
                     /\ pc' = "reply"
                [] command = "/report" ->
                     /\ \E values \in ResponseValues(agentResponses) :
                          sent' = reply(reportMessage(values, now))
                     /\ pc' = "reply"
                [] command = "/profile" ->
                     /\ \E text \in ProfileReplies : sent' = reply(text)
                     /\ pc' = "reply"
                [] OTHER ->
                     IF HoldsGm(message.content)
                       THEN sent' = reply(TXT_GM) /\ pc' = "reply"
                       ELSE sent' = sent /\ pc' = "next"
     /\ (pc = "reply") => sent' = sent]_vars

\* Alice wrote " /Stats" and the statistics are on their way to her.
C20_Witness ==
  /\ pc = "reply"
  /\ message.content = <<" ","/","S","t","a","t","s">>
  /\ sent[Len(sent)].text = statsMessage(messageHistory, isActive)
  /\ Len(messageHistory) = 4

\* The replies to /status among the sends, and the sends that tell of a
\* change of the flag.
IsStatusReport(i) == sent[i].text \in {TXT_STATUS_ON, TXT_STATUS_OFF}

IsSwitchReport(i) == sent[i].text \in {TXT_STARTED, TXT_STOPPED}

\* C21: two replies to /status with no /start or /stop handled between them
\* report the same value, whatever else was sent, broadcast or failed in
\* between; and the step that handles /status reports the flag as it is and
\* changes neither the flag, the history, the sender sets nor the response
\* map.
C21_StatusIdempotent ==
  /\ [](\A i, j \in 1..Len(sent) :
          (/\ i < j
           /\ IsStatusReport(i)
           /\ IsStatusReport(j)
           /\ \A k \in (i + 1)..(j - 1) : ~IsSwitchReport(k))
          => sent[i].text = sent[j].text)
  /\ [][(Dispatching /\ ReadAs(message.content) = "/status")
        => /\ sent' = Append(sent,
                 [conversationId |-> message.conversationId,
                  text |-> IF isActive THEN TXT_STATUS_ON
                           ELSE TXT_STATUS_OFF])
           /\ UNCHANGED <<isActive, messageHistory, uniqueSenders,
                          uniqueWalletAddresses, agentResponses>>]_vars

\* Bob asked for the status, wrote "hi" and asked again; the timer has
\* broadcast and an error text has been sent in the meantime, and both
\* replies say the same.
C21_Witness ==
  /\ Len(messageHistory) = 3
  /\ ReadAs(messageHistory[1].messageContent) = "/status"
  /\ ReadAs(messageHistory[2].messageContent) = "hi"
  /\ ReadAs(messageHistory[3].messageContent) = "/status"
  /\ broadcasts["conv1"].ping >= 1
  /\ \E i, j, k \in 1..Len(sent) :
       /\ i < k /\ k < j
       /\ IsStatusReport(i) /\ IsStatusReport(j)
       /\ sent[k].text = TXT_ERROR
       /\ sent[i].text = sent[j].text

\* The class of a record whose last response is d whole seconds old, by the
\* colour of its indicator: green is active, yellow recent, red inactive.
ClassOf(d) ==
  IF d < 30 THEN "green" ELSE IF d < 60 THEN "yellow" ELSE "red"

\* The line of the report for a record, as the classes above have it.
ClassifiedLine(response) ==
  "  " \o ClassOf((now - response.lastResponseTime) \div 1000) \o " " \o
  getDisplayName(response.senderAddress) \o " - " \o
  getTimeDifference(now, response.lastResponseTime)

EmptyStats(active) ==
  "Message Tracking Stats\n\nTotal Messages: 0\nUnique Wallet Addresses: 0"
  \o "\nGM Broadcasting: " \o (IF active THEN "Active" ELSE "Inactive")
  \o "\n\nRecent Messages:\n  No messages yet"
  \o "\n\nTop Senders:\n  No senders yet"

\* C23: /stats handled while the message history is empty replies with a
\* total of 0 messages, 0 distinct wallet addresses and the placeholder in
\* the section of the recent messages and in the section of the top senders.
C23_EmptyStats ==
  [][(/\ Dispatching
      /\ ReadAs(message.content) = "/stats"
      /\ messageHistory = << >>)
     => sent' = Append(sent, [conversationId |-> message.conversationId,
                              text |-> EmptyStats(isActive)])]_vars

\* The sender with the excluded address asked for the statistics before
\* any message was recorded, and the reply with the placeholders is out.
C23_Witness ==
  /\ pc = "reply"
  /\ ReadAs(message.content) = "/stats"
  /\ messageHistory = << >>
  /\ sent = <<[conversationId |-> "conv1", text |-> EmptyStats(isActive)]>>

\* C24: the message history only grows at its end: a step leaves every
\* record at its position with its fields as they are, and adds at most one
\* record behind them.
C24_HistoryAppendOnly ==
  [][/\ Len(messageHistory') >= Len(messageHistory)
     /\ Len(messageHistory') <= Len(messageHistory) + 1
     /\ SubSeq(messageHistory', 1, Len(messageHistory)) = messageHistory]_vars

\* Two messages of one sender are recorded, an error text has been sent and
\* a tick has broadcast and removed a conversation after a failed send.
C24_Witness ==
  /\ Len(messageHistory) = 2
  /\ messageHistory[1].senderInboxId = messageHistory[2].senderInboxId
  /\ \E i \in 1..Len(sent) : sent[i].text = TXT_ERROR
  /\ \E c \in Conversations : broadcasts[c].gm >= 1
  /\ \E c \in Conversations : life[c] = "send_failed"

\* In this step a lookup or a send of the timer has failed for a
\* conversation.
BroadcastFailed ==
  \E c \in Conversations :
    life'[c] # life[c] /\ life'[c] \in {"send_failed", "lookup_failed"}

\* In this step the address of the sender was not resolved, or the
\* conversation of the message was not found.
MessageDropped ==
  /\ pc \in {"address", "conv", "skip_conv"}
  /\ outcomes'[Len(outcomes')].result \in {"no_address", "no_conversation"}

\* In this step the stream has thrown, or the re-sync has returned or thrown.
StreamBroken ==
  (pc # "backoff" /\ pc' = "backoff") \/ (pc = "sync" /\ pc' # "sync")

\* C25: the error text is sent only in the catch of the processing of a
\* message; a failed send or lookup of the timer, an unresolved address, a
\* conversation that is not found, an error of the stream and a failed
\* re-sync send no text into any conversation, and a message dropped for its
\* address or its conversation gets no error text later either.
C25_ErrorTextOnlyFromHandler ==
  /\ [][/\ (Len(sent') > Len(sent) /\ sent'[Len(sent')].text = TXT_ERROR)
            => pc = "err_conv"
        /\ (BroadcastFailed \/ MessageDropped \/ StreamBroken)
            => sent' = sent /\ broadcasts' = broadcasts]_vars
  /\ [](\A i \in 1..Len(outcomes) :
          outcomes[i].result \in {"no_address", "no_conversation"}
            => outcomes[i].notice = "none")

\* A send of the timer has failed, the conversation of the second message
\* was not found, the stream has failed and the re-sync is over, and no
\* error text was sent.
C25_Witness ==
  /\ pc = "stream"
  /\ Len(outcomes) = 2
  /\ outcomes[2].result = "no_conversation"
  /\ \E c \in Conversations : life[c] = "send_failed"
  /\ \A i \in 1..Len(sent) : sent[i].text # TXT_ERROR

\* In this step the send of "GM" of tick k has returned.
GreetingDelivered(k) ==
  /\ ticks[k].pc = "gm"
  /\ ticks'[k] # ticks[k]
  /\ life' = life

\* C26: when the send of "GM" to a conversation has returned, the timer
\* upserts the record of the sender of the last record that the history
\* holds for the conversation at that moment.
C26_UpsertsLatestAtUpdate ==
  [][\A k \in 1..MaxTicks :
       GreetingDelivered(k) =>
         LET c == ticks[k].conversationId
             conversationMessages == ConversationMessages(messageHistory, c)
             latestMessage == conversationMessages[Len(conversationMessages)]
         IN  agentResponses' =
               updateAgentResponse(agentResponses, latestMessage.senderInboxId,
                                   latestMessage.senderAddress, c, now)]_vars

\* Tick k awaits a send into the conversation whose lookup the loop awaits
\* before it adds the conversation: an add and a failure-removal of the same
\* id are both about to take effect.
AddMeetsRemoval(k) ==
  /\ pc = "conv"
  /\ ticks[k].pc \in {"ping", "gm"}
  /\ ticks[k].conversationId = message.conversationId

\* C27 as stated: where an add and a failure-removal of one id meet, the
\* active set is the same whichever of the two takes effect first.
C27_AsStated ==
  \A k \in 1..MaxTicks :
    AddMeetsRemoval(k) =>
      LET c == message.conversationId
      IN  SeqToSet(SetDelete(SetAdd(activeConversations, c), c)) =
          SeqToSet(SetAdd(SetDelete(activeConversations, c), c))

\* C27: the add of the loop is Set.add and the removal of the timer is
\* Set.delete of the id, and where the two meet the later one decides: the
\* id is out of the set when the removal follows the add, and in it when
\* the add follows the removal.
C27_LaterOneDecides ==
  /\ [](\A k \in 1..MaxTicks :
          AddMeetsRemoval(k) =>
            LET c == message.conversationId
            IN  /\ c \notin SeqToSet(SetDelete(SetAdd(activeConversations, c), c))
                /\ c \in SeqToSet(SetAdd(SetDelete(activeConversations, c), c)))
  /\ [][/\ (/\ pc = "conv"
             /\ outcomes'[Len(outcomes')].result
                  \in {"handled", "dispatched", "not_text"})
            => activeConversations' =
                 SetAdd(activeConversations, message.conversationId)
        /\ \A c \in Conversations :
             (life'[c] # life[c] /\ life'[c] \in {"send_failed", "lookup_failed"})
               => activeConversations' = SetDelete(activeConversations, c)]_vars

\* While the tick awaited its send of "GM" into conv1, the loop recorded a
\* second message of conv1 and added the id again; the send may still fail.
C27_Witness ==
  /\ ticks[1].pc = "gm"
  /\ ticks[1].conversationId = "conv1"
  /\ Len(messageHistory) = 2
  /\ ticks[1].latestMessage = messageHistory[1]
  /\ messageHistory[2].conversationId = "conv1"
  /\ pc = "next"
  /\ outcomes[2].result = "handled"
  /\ "conv1" \in SeqToSet(activeConversations)

\* C28: while isActive is false the timer issues no send: no step taken
\* with the flag off has the timer send "ping" or "GM" into a conversation,
\* not even a step of a tick that was iterating when /stop was handled.
C28_NoSendWhileInactive ==
  [][(~isActive) => broadcasts' = broadcasts]_vars

\* C29: at most one tick is in progress: no two invocations of the callback
\* are inside the iteration of the active set at the same time.
C29_OneTickAtATime ==
  \A j, k \in 1..MaxTicks :
    (InBody(ticks[j]) /\ InBody(ticks[k])) => j = k

HasRecord(c) ==
  \E i \in 1..Len(messageHistory) : messageHistory[i].conversationId = c

\* C30: every id of the active set has a record in the message history, and
\* so has the id a tick is at: a tick that finds the conversation finds a
\* latest message for it.
C30_ActiveHasRecord ==
  /\ \A c \in SeqToSet(activeConversations) : HasRecord(c)
  /\ \A k \in 1..MaxTicks :
       InBody(ticks[k]) => HasRecord(ticks[k].conversationId)

\* Both conversations are active and a tick has found the latest message of
\* the second one.
C30_Witness ==
  /\ Len(activeConversations) = 2
  /\ ticks[1].pc = "ping"
  /\ ticks[1].idx = 2
  /\ ticks[1].latestMessage = messageHistory[Len(messageHistory)]

\* In this step a send of tick k into conversation c has thrown.
SendFailed(k, c) ==
  /\ ticks[k].pc \in {"ping", "gm"}
  /\ ticks[k].conversationId = c
  /\ life'[c] # life[c]
  /\ life'[c] = "send_failed"

\* C31: for each conversation a tick sends "ping" and, once that send has
\* returned, "GM"; it records the response only in the step in which the
\* send of "GM" has returned; a send that throws removes the id from the
\* active set, and that step sends nothing more and touches no response
\* record.
C31_PingThenGreeting ==
  /\ [](\A c \in Conversations : broadcasts[c].gm <= broadcasts[c].ping)
  /\ [][\A c \in Conversations :
         /\ broadcasts'[c].ping # broadcasts[c].ping
              => \E k \in 1..MaxTicks :
                   /\ ticks[k].pc = "lookup" /\ ticks[k].conversationId = c
                   /\ ticks'[k].pc = "ping" /\ ticks'[k].conversationId = c
                   /\ broadcasts'[c] = [broadcasts[c] EXCEPT !.ping = @ + 1]
         /\ broadcasts'[c].gm # broadcasts[c].gm
              => \E k \in 1..MaxTicks :
                   /\ ticks[k].pc = "ping" /\ ticks[k].conversationId = c
                   /\ ticks'[k].pc = "gm" /\ ticks'[k].conversationId = c
                   /\ broadcasts'[c] = [broadcasts[c] EXCEPT !.gm = @ + 1]
                   /\ life' = life
         /\ \A k \in 1..MaxTicks :
              /\ (Acted(k) /\ agentResponses' # agentResponses)
                   => /\ ticks[k].pc = "gm"
                      /\ life' = life
                      /\ activeConversations' = activeConversations
              /\ SendFailed(k, c)
                   => /\ c \notin SeqToSet(activeConversations')
                      /\ agentResponses' = agentResponses
                      /\ broadcasts' = broadcasts]_vars

\* The "ping" of a tick into conv1 went through and its "GM" failed: the id
\* is out of the active set and no response is recorded.
C31_Witness ==
  /\ life["conv1"] = "send_failed"
  /\ broadcasts["conv1"] = [ping |-> 1, gm |-> 1]
  /\ "conv1" \notin SeqToSet(activeConversations)
  /\ DOMAIN agentResponses = {}

\* The positions of the loop inside the catch of the per-message try.
InCatch == pc \in {"err_conv", "err_send", "err_address"}

\* /stop has been dispatched and the handling of its message is not over:
\* the confirmation send is awaited, or it has thrown and the catch runs.
StopDispatched ==
  /\ AtCommand(CMD_STOP)
  /\ \/ pc = "reply"
     \/ InCatch /\ outcomes[Len(outcomes)].result = "send_threw"

\* C32: dispatching /start leaves the broadcasting flag alone, and when the
\* greeting send throws the flag still has that value, nothing is sent in
\* that step and the catch sends nothing but the error text, so the start
\* confirmation only ever follows a greeting; dispatching /stop clears the
\* flag in the step that calls the confirmation send, and the flag is clear
\* until the handling of that message is over, whether that send returns or
\* throws.
C32_FlagOnFailedSend ==
  /\ [](/\ \A j \in 1..Len(sent) :
           (sent[j].text = TXT_STARTED
              => (j >= 2 /\ sent[j - 1].text = TXT_GM))
        /\ (StopDispatched => ~isActive))
  /\ [][/\ (AtCommand(CMD_START) /\ pc' = "start_gm")
             => isActive' = isActive
        /\ (pc = "start_gm" /\ pc' \notin {"start_gm", "reply"})
             => /\ pc' = "err_conv"
                /\ isActive' = isActive
                /\ sent' = sent
        /\ (InCatch /\ sent' # sent)
             => sent' = Send(message.conversationId, TXT_ERROR)
        /\ (AtCommand(CMD_STOP) /\ pc \in {"conv", "skip_conv"}
                                /\ pc' = "reply")
             => /\ isActive' = FALSE
                /\ sent' = Send(message.conversationId, TXT_STOPPED)
        /\ StopDispatched => isActive' = FALSE]_vars

\* The confirmation send of /stop has thrown, and so has the greeting send
\* of the /start that followed: broadcasting is still off.
C32_Witness ==
  /\ Len(outcomes) = 2
  /\ outcomes[1].result = "send_threw"
  /\ sent[1].text = TXT_STOPPED
  /\ AtCommand(CMD_START)
  /\ pc = "err_conv"
  /\ sent[Len(sent)].text = TXT_GM
  /\ ~isActive

\* The loop is handling a message whose sender resolved to the excluded
\* address.
HandlingExcluded == Processing /\ IsSkipAddress(senderAddress)

\* C33: a message whose sender resolves to the excluded address, in any
\* letter case, is never tracked: no record of the history and no response
\* record carries that address, the sender sets do not hold it, and no step
\* of the handling of such a message changes the history, the sender sets,
\* the active set or the response map.
C33_ExcludedNeverTracked ==
  /\ [](/\ \A i \in 1..Len(messageHistory) :
           ~IsSkipAddress(messageHistory[i].senderAddress)
        /\ \A a \in uniqueWalletAddresses : ~IsSkipAddress(a)
        /\ Excluded \notin uniqueSenders
        /\ \A id \in DOMAIN agentResponses :
           ~IsSkipAddress(agentResponses[id].senderAddress))
  /\ [][(HandlingExcluded /\ pc' # pc)
          => UNCHANGED <<messageHistory, uniqueSenders, uniqueWalletAddresses,
                         activeConversations, agentResponses>>]_vars

\* The same without the response map: what holds of the excluded sender.
C33_ExceptResponses ==
  /\ [](/\ \A i \in 1..Len(messageHistory) :
           ~IsSkipAddress(messageHistory[i].senderAddress)
        /\ \A a \in uniqueWalletAddresses : ~IsSkipAddress(a)
        /\ Excluded \notin uniqueSenders)
  /\ [][(HandlingExcluded /\ pc' # pc)
          => /\ UNCHANGED <<messageHistory, uniqueSenders,
                            uniqueWalletAddresses, activeConversations>>
             /\ pc # "err_address" => agentResponses' = agentResponses]_vars

\* The records of the delivered messages, in the order of delivery.
RECURSIVE RecordsOf(_)
RecordsOf(n) ==
  IF n = 0 THEN << >>
  ELSE IF outcomes[n].record = 0 THEN RecordsOf(n - 1)
  ELSE Append(RecordsOf(n - 1), outcomes[n].record)

\* C34: the loop takes a message from the stream only when the handling of
\* the one before is over, error notice included; the records of the history
\* are those of the delivered messages in the order of delivery; and a step
\* that sends for the loop, switches the broadcasting flag or appends a
\* record belongs to the message delivered last, every earlier one being
\* finished.
C34_OneMessageAtATime ==
  /\ [](/\ (\A i \in 1..Len(outcomes) - 1 :
             outcomes[i].result \notin {"pending", "dispatched"})
        /\ RecordsOf(Len(outcomes)) = [j \in 1..Len(messageHistory) |-> j]
        /\ (\A i \in 1..Len(outcomes) :
             outcomes[i].record # 0
               => messageHistory[outcomes[i].record].senderInboxId
                    = outcomes[i].sender)
        /\ (Processing <=> message # NoMessage)
        /\ (Processing
              => /\ Len(outcomes) >= 1
                 /\ outcomes[Len(outcomes)].sender = message.senderInboxId))
  /\ [][/\ Len(outcomes') # Len(outcomes)
             => /\ ~Processing
                /\ pc = "next"
                /\ Len(outcomes') = Len(outcomes) + 1
                /\ UNCHANGED <<sent, isActive, messageHistory>>
        /\ (sent' # sent \/ isActive' # isActive
                          \/ messageHistory' # messageHistory)
             => /\ Processing
                /\ Len(outcomes') = Len(outcomes)
                /\ Len(sent') >= outcomes[Len(outcomes)].sentBefore]_vars

\* /stop and then /start of the stream have both been handled, in the order
\* of their delivery: broadcasting is on.
C34_Witness ==
  /\ Len(outcomes) = 2
  /\ HandledCommand(1, CMD_STOP)
  /\ HandledCommand(2, CMD_START)
  /\ outcomes[1].record = 1 /\ outcomes[2].record = 2
  /\ sent[outcomes[2].sentBefore].text = TXT_STOPPED
  /\ Finished(2)
  /\ isActive

\* A stream is open: its next message is awaited or one of its messages is
\* being handled.
Iterating == pc = "next" \/ Processing

\* C35: the loop consumes one stream at a time.  It asks for a stream only
\* after the first sync, after the re-sync that follows a failure, or when
\* the iteration of the stream before has ended, and then no message of
\* that stream is in hand; the iteration is left only where the next message
\* is awaited, never in the middle of a message; and messages are taken only
\* from the stream that was opened last.
C35_OneStreamAtATime ==
  /\ []((pc \in {"stream", "backoff", "sync"})
          => (message = NoMessage /\ senderAddress = NULL))
  /\ [][/\ (pc' = "stream" /\ pc # "stream")
             => /\ pc \in {"init_sync", "sync", "next"}
                /\ ~Processing
        /\ (pc' = "backoff" /\ pc # "backoff")
             => pc \in {"stream", "next"}
        /\ (pc' = "sync" /\ pc # "sync") => pc = "backoff"
        /\ (Iterating /\ ~Iterating')
             => (pc = "next" /\ pc' \in {"stream", "backoff"})
        /\ (~Iterating /\ Iterating')
             => (pc = "stream" /\ pc' = "next")
        /\ Len(outcomes') # Len(outcomes) => (pc = "next" /\ Iterating')]_vars

\* A fresh stream is being asked for after the stream before has delivered
\* two messages.
C35_Witness ==
  /\ pc = "stream"
  /\ Len(outcomes) = 2
  /\ outcomes[2].result # "pending"

\* The name a call of getBasename gave: none for null and for undefined.
NameOf(returned) == IF returned \in {NULL, UNDEFINED} THEN NULL ELSE returned

\* Calls i and j of getBasename are for one address, whatever the spelling.
SameAddress(i, j) ==
  ToLowerCase(lookups[i].address) = ToLowerCase(lookups[j].address)

\* In this step call i, which has read the resolver, returns.
Returns(i) ==
  /\ i \in 1..Len(lookups)
  /\ lookups[i].pc \in {"primary", "fallback"}
  /\ lookups'[i].pc = "done"

\* What a returning call leaves in the cache: the name it found, or no name
\* after a failure or an empty answer, under the lower-cased address and
\* with the time of the return.
WritesEntry(i) ==
  LET key == ToLowerCase(lookups[i].address)
  IN  /\ key \in DOMAIN basenameCache'
      /\ basenameCache'[key] = [basename |-> NameOf(lookups'[i].returned),
                                timestamp |-> now, by |-> i]
      /\ \A k \in DOMAIN basenameCache \ {key} :
           k \in DOMAIN basenameCache' /\ basenameCache'[k] = basenameCache[k]

\* C36: a call of getBasename made less than 5 minutes after an earlier call
\* for the same address, in any spelling, reads no resolver and returns the
\* name of the call that wrote the cache entry; a call that read the
\* resolver caches what it found, and no name when it failed; a call that
\* finds an expired entry reads the resolver and replaces the entry.
C36_CachedForFiveMinutes ==
  /\ [](\A i, j \in 1..Len(lookups) :
          /\ (/\ i < j
              /\ SameAddress(i, j)
              /\ lookups[j].started - lookups[i].started < CACHE_DURATION_MS)
               => /\ lookups[j].rpc = 0
                  /\ lookups[j].read \in 1..(j - 1)
                  /\ NameOf(lookups[j].returned)
                       = NameOf(lookups[lookups[j].read].returned)
          /\ lookups[j].expired => lookups[j].rpc >= 1)
  /\ [][\A i \in 1..MaxLookups : Returns(i) => WritesEntry(i)]_vars

\* The same, counted from the entry instead of from the earlier call: a call
\* that starts while the cache holds an entry for the address that was
\* written less than 5 minutes before reads no resolver and returns the
\* name stored, and every other call reads the resolver.
C36_PerEntry ==
  /\ [](\A j \in 1..Len(lookups) :
          /\ lookups[j].rpc = 0
               => /\ lookups[j].read \in 1..(j - 1)
                  /\ SameAddress(lookups[j].read, j)
                  /\ lookups[j].returned
                       = NameOf(lookups[lookups[j].read].returned)
          /\ lookups[j].expired => lookups[j].rpc >= 1)
  /\ [][/\ \A i \in 1..MaxLookups : Returns(i) => WritesEntry(i)
        /\ Len(lookups') > Len(lookups)
             => LET j == Len(lookups')
                    key == ToLowerCase(lookups'[j].address)
                IN  /\ UNCHANGED basenameCache
                    /\ lookups'[j].rpc = 0
                         <=> /\ key \in DOMAIN basenameCache
                             /\ now - basenameCache[key].timestamp
                                  < CACHE_DURATION_MS]_vars

====
